---- MODULE Spec2Model ----
(***************************************************************************)
(* Manifest synchronisation (loader.ts, api.ts, d2ai.ts) and the weapon    *)
(* transformation pipeline (transformer.ts, season.ts) of the DIM wishlist *)
(* editor, together with the IndexedDB tables they read and write.         *)
(*                                                                         *)
(* Encoding of JavaScript values:                                          *)
(*   - item / plug / plug-set / source hashes are numbers; definition      *)
(*     tables and d2ai maps are keyed by their decimal strings, String(h); *)
(*   - the well-known category / bucket / socket-type identifiers exceed   *)
(*     the integer range of the model checker and are carried as their     *)
(*     decimal strings (they are only ever compared for equality);         *)
(*   - `undefined` and `null` are one sentinel per value type.             *)
(***************************************************************************)
EXTENDS Integers, Sequences, FiniteSets, TLC

\* ------------------------------------------------------------------------
\* JavaScript sentinels
\* ------------------------------------------------------------------------
UndefNum == 0 - 1
NullNum == 0 - 2
UndefStr == "<undefined>"
NullStr == "<null>"
UndefSet == {"<undefined>"}
UndefList == <<[plugItemHash |-> 0 - 1]>>

\* String(n) for a number n
String(n) == ToString(n)

\* obj[key] on a plain object: undefined when the key is absent
LookupNum(map, key) == IF key \in DOMAIN map THEN map[key] ELSE UndefNum

\* Array.prototype.at(index): zero-based, negative indexes count from the end
HasAt(arr, index) ==
    IF index >= 0 THEN index < Len(arr) ELSE index + Len(arr) >= 0

At(arr, index) == IF index >= 0 THEN arr[index + 1] ELSE arr[index + Len(arr) + 1]

\* Array.prototype.includes on an array of numbers
Includes(arr, x) == \E i \in 1..Len(arr) : arr[i] = x

\* ------------------------------------------------------------------------
\* lib/constants.ts
\* ------------------------------------------------------------------------
KineticWeapons == "1498876634"
EnergyWeapons == "2465295065"
PowerWeapons == "953998645"
WEAPON_BUCKET_HASHES == <<KineticWeapons, EnergyWeapons, PowerWeapons>>

IntrinsicTraits == "3956125808"
WeaponPerks == "4241085061"
WeaponMods == "2685412949"

Tracker == "1282012138"

EmptySocketPlug == "3618704867"
EmptyModSocketPlug == "1915962497"
EMPTY_PLUG_CATEGORY_HASHES == {EmptySocketPlug, EmptyModSocketPlug}

Weapon == "1"
Dummies == "3109687656"
HandCannon == "6"
WeaponModsOriginTraits == "1052191891"

ENHANCED_PERK_TIER_TYPE == 3
BUNGIE_NET == "https://www.bungie.net"

\* ------------------------------------------------------------------------
\* services/manifest/season.ts
\* ------------------------------------------------------------------------
getSeasonSourceFirst(itemDef, watermark, sourceHash, d2ai) ==
    LET byWatermark == IF watermark # NullStr /\ watermark # ""
                       THEN LookupNum(d2ai.watermarkToSeason, watermark)
                       ELSE UndefNum
        bySource == IF sourceHash # UndefNum /\ sourceHash # 0
                    THEN LookupNum(d2ai.sourceToSeason, String(sourceHash))
                    ELSE UndefNum
        byItem == LookupNum(d2ai.seasons, String(itemDef.hash))
    IN  IF bySource # UndefNum THEN bySource
        ELSE IF byWatermark # UndefNum THEN byWatermark
        ELSE IF byItem # UndefNum THEN byItem
        ELSE NullNum

getSeason(itemDef, watermark, sourceHash, d2ai) ==
    LET byWatermark == IF watermark # NullStr /\ watermark # ""
                       THEN LookupNum(d2ai.watermarkToSeason, watermark)
                       ELSE UndefNum
        bySource == IF sourceHash # UndefNum /\ sourceHash # 0
                    THEN LookupNum(d2ai.sourceToSeason, String(sourceHash))
                    ELSE UndefNum
        byItem == LookupNum(d2ai.seasons, String(itemDef.hash))
    IN  IF byWatermark # UndefNum THEN byWatermark
        ELSE IF bySource # UndefNum THEN bySource
        ELSE IF byItem # UndefNum THEN byItem
        ELSE NullNum

getEvent(itemDef, watermark, sourceHash, d2ai) ==
    LET byWatermark == IF watermark # NullStr /\ watermark # ""
                       THEN LookupNum(d2ai.watermarkToEvent, watermark)
                       ELSE UndefNum
        byItem == LookupNum(d2ai.events, String(itemDef.hash))
    IN  IF byWatermark # UndefNum THEN byWatermark
        ELSE IF byItem # UndefNum THEN byItem
        ELSE NullNum

\* ------------------------------------------------------------------------
\* services/manifest/transformer.ts
\* ------------------------------------------------------------------------

\* Object.values(table): integer-like keys are enumerated in ascending order
RECURSIVE SortedKeys(_)
SortedKeys(S) ==
    IF S = {} THEN <<>>
    ELSE LET m == CHOOSE x \in S : \A y \in S : x <= y
         IN  <<m>> \o SortedKeys(S \ {m})

ObjectValues(table, universe) ==
    LET keys == SortedKeys({h \in universe : String(h) \in DOMAIN table})
    IN  [i \in 1..Len(keys) |-> table[String(keys[i])]]

isWeaponUnlessRedacted(itemDef) ==
    LET categories == IF itemDef.itemCategoryHashes = UndefSet
                      THEN {} ELSE itemDef.itemCategoryHashes
        bucketHash == itemDef.inventory.bucketTypeHash
    IN  /\ Weapon \in categories
        /\ Dummies \notin categories
        /\ bucketHash # UndefStr
        /\ \E i \in 1..Len(WEAPON_BUCKET_HASHES) : WEAPON_BUCKET_HASHES[i] = bucketHash
        /\ itemDef.displayProperties.name # ""

isWeapon(itemDef) ==
    LET categories == IF itemDef.itemCategoryHashes = UndefSet
                      THEN {} ELSE itemDef.itemCategoryHashes
        bucketHash == itemDef.inventory.bucketTypeHash
    IN  /\ Weapon \in categories
        /\ Dummies \notin categories
        /\ bucketHash # UndefStr
        /\ \E i \in 1..Len(WEAPON_BUCKET_HASHES) : WEAPON_BUCKET_HASHES[i] = bucketHash
        /\ itemDef.displayProperties.name # ""
        /\ ~itemDef.redacted

\* getWatermark reads .length of both watermark strings; reading it on a
\* missing (undefined) string is a TypeError
getWatermarkThrows(itemDef) ==
    \/ itemDef.iconWatermark = UndefStr
    \/ /\ itemDef.iconWatermark = ""
       /\ itemDef.iconWatermarkShelved = UndefStr

getWatermark(itemDef) ==
    IF itemDef.iconWatermark # "" THEN itemDef.iconWatermark
    ELSE IF itemDef.iconWatermarkShelved # "" THEN itemDef.iconWatermarkShelved
    ELSE NullStr

getSlot(bucketHash) ==
    CASE bucketHash = KineticWeapons -> 0
      [] bucketHash = EnergyWeapons -> 1
      [] bucketHash = PowerWeapons -> 2
      [] OTHER -> 0 - 1

prefixBungieOrNull(path) ==
    IF path = UndefStr \/ path = "" THEN NullStr ELSE BUNGIE_NET \o path

\* the reverse index built at the top of transformWeapons
collectibleByItemHash(tbls, universe) ==
    LET cs == ObjectValues(tbls.DestinyCollectibleDefinition, universe)
        idx(k) == CHOOSE i \in 1..Len(cs) :
                     /\ String(cs[i].itemHash) = k
                     /\ \A j \in (i + 1)..Len(cs) : String(cs[j].itemHash) # k
    IN  [k \in {String(cs[i].itemHash) :
                  i \in {j \in 1..Len(cs) : cs[j].itemHash # UndefNum /\ cs[j].itemHash # 0}}
           |-> IF cs[idx(k)].sourceHash = UndefNum THEN 0 ELSE cs[idx(k)].sourceHash]

extractWeaponItem(itemDef, tbls, d2ai, collectibles) ==
    LET bucketHash == IF itemDef.inventory.bucketTypeHash = UndefStr
                      THEN "0" ELSE itemDef.inventory.bucketTypeHash
        watermark == getWatermark(itemDef)
        dmgKey == String(itemDef.defaultDamageTypeHash)
        damageType ==
            IF /\ itemDef.defaultDamageTypeHash # UndefNum
               /\ itemDef.defaultDamageTypeHash # 0
               /\ dmgKey \in DOMAIN tbls.DestinyDamageTypeDefinition
            THEN tbls.DestinyDamageTypeDefinition[dmgKey].enumValue
            ELSE 0
        sourceHash == LookupNum(collectibles, String(itemDef.hash))
    IN  [hash |-> itemDef.hash,
         name |-> itemDef.displayProperties.name,
         flavorText |-> itemDef.flavorText,
         tierType |-> IF itemDef.inventory.tierType = UndefNum
                      THEN 0 ELSE itemDef.inventory.tierType,
         itemType |-> itemDef.itemTypeDisplayName,
         damageType |-> damageType,
         slot |-> getSlot(bucketHash),
         ammoType |-> IF itemDef.equippingBlock.ammoType = UndefNum
                      THEN 0 ELSE itemDef.equippingBlock.ammoType,
         source |-> IF sourceHash = UndefNum THEN NullNum ELSE sourceHash,
         iconSrc |-> prefixBungieOrNull(itemDef.displayProperties.icon),
         watermarkSrc |-> prefixBungieOrNull(itemDef.iconWatermark),
         watermarkFeaturedSrc |-> prefixBungieOrNull(itemDef.iconWatermarkFeatured),
         screenshotSrc |-> prefixBungieOrNull(itemDef.screenshot),
         foundrySrc |-> prefixBungieOrNull(itemDef.secondaryIcon),
         isCraftable |-> Includes(d2ai.craftableHashes, itemDef.hash),
         isAdept |-> itemDef.isAdept,
         isHolofoil |-> itemDef.isHolofoil,
         isFeatured |-> itemDef.isFeaturedItem,
         season |-> getSeason(itemDef, watermark, sourceHash, d2ai),
         event |-> getEvent(itemDef, watermark, sourceHash, d2ai)]

\* `null` for an object-valued field (WeaponFull.frame)
NullObj == [null |-> TRUE]

RECURSIVE socketsAt(_, _)
socketsAt(socketEntries, socketIndexes) ==
    IF socketIndexes = <<>> THEN <<>>
    ELSE (IF HasAt(socketEntries, Head(socketIndexes))
          THEN <<At(socketEntries, Head(socketIndexes))>>
          ELSE <<>>) \o socketsAt(socketEntries, Tail(socketIndexes))

getSocketsByCategoryInEntryOrder(itemDef, categoryHash) ==
    LET socketData == itemDef.sockets
        cats == socketData.socketCategories
        found == {i \in 1..Len(cats) : cats[i].socketCategoryHash = categoryHash}
        first == CHOOSE i \in found : \A j \in found : i <= j
        listed == {cats[first].socketIndexes[i] : i \in 1..Len(cats[first].socketIndexes)}
    IN  IF ~socketData.present THEN <<>>
        ELSE IF found = {} THEN <<>>
        ELSE socketsAt(socketData.socketEntries,
                       SortedKeys({k \in listed : HasAt(socketData.socketEntries, k)}))

getSocketsByCategory(itemDef, categoryHash) ==
    LET socketData == itemDef.sockets
        cats == socketData.socketCategories
        found == {i \in 1..Len(cats) : cats[i].socketCategoryHash = categoryHash}
        first == CHOOSE i \in found : \A j \in found : i <= j
    IN  IF ~socketData.present THEN <<>>
        ELSE IF found = {} THEN <<>>
        ELSE socketsAt(socketData.socketEntries, cats[first].socketIndexes)

\* tables.DestinyInventoryItemDefinition[String(hash)] is defined
hasItemDef(tbls, hash) ==
    /\ hash # UndefNum
    /\ String(hash) \in DOMAIN tbls.DestinyInventoryItemDefinition

itemDefOf(tbls, hash) == tbls.DestinyInventoryItemDefinition[String(hash)]

plugDescriptor(plugDef) ==
    [hash |-> plugDef.hash,
     name |-> plugDef.displayProperties.name,
     description |-> plugDef.displayProperties.description,
     iconSrc |-> prefixBungieOrNull(plugDef.displayProperties.icon)]

getFrame(itemDef, tbls) ==
    LET sockets == getSocketsByCategory(itemDef, IntrinsicTraits)
        plugHash == sockets[1].singleInitialItemHash
    IN  IF Len(sockets) = 0 THEN NullObj
        ELSE IF plugHash = 0 THEN NullObj
        ELSE IF ~hasItemDef(tbls, plugHash) THEN NullObj
        ELSE plugDescriptor(itemDefOf(tbls, plugHash))

RECURSIVE intrinsicsOf(_, _)
intrinsicsOf(sockets, tbls) ==
    IF sockets = <<>> THEN <<>>
    ELSE LET plugHash == Head(sockets).singleInitialItemHash
             plugDef == itemDefOf(tbls, plugHash)
             plugCategories == IF plugDef.itemCategoryHashes = UndefSet
                               THEN {} ELSE plugDef.itemCategoryHashes
             rest == intrinsicsOf(Tail(sockets), tbls)
         IN  IF plugHash = 0 THEN rest
             ELSE IF ~hasItemDef(tbls, plugHash) THEN rest
             ELSE IF WeaponModsOriginTraits \in plugCategories
                  THEN <<plugDescriptor(plugDef)>> \o rest
                  ELSE rest

getIntrinsicsOfAllSockets(itemDef, tbls) ==
    intrinsicsOf(IF itemDef.sockets.present THEN itemDef.sockets.socketEntries ELSE <<>>, tbls)

getIntrinsics(itemDef, tbls) ==
    intrinsicsOf(getSocketsByCategory(itemDef, WeaponPerks), tbls)

\* a Set<number> in insertion order
RECURSIVE insertionOrder(_, _)
insertionOrder(hashes, seen) ==
    IF hashes = <<>> THEN <<>>
    ELSE IF Head(hashes) \in seen THEN insertionOrder(Tail(hashes), seen)
    ELSE <<Head(hashes)>> \o insertionOrder(Tail(hashes), seen \cup {Head(hashes)})

getCuratedPlugHashes(socket) ==
    insertionOrder([i \in 1..Len(socket.reusablePlugItems) |->
                       socket.reusablePlugItems[i].plugItemHash], {})

isEmptyPlug(plugDef) ==
    /\ plugDef.plug.plugCategoryHash # UndefStr
    /\ plugDef.plug.plugCategoryHash \in EMPTY_PLUG_CATEGORY_HASHES

isEnhancedPerk(plugDef) == plugDef.inventory.tierType = ENHANCED_PERK_TIER_TYPE

isValidPerkOrEnhanced(plugDef) ==
    /\ Len(plugDef.displayProperties.name) > 0
    /\ ~isEmptyPlug(plugDef)

isValidPerk(plugDef) ==
    /\ Len(plugDef.displayProperties.name) > 0
    /\ ~isEmptyPlug(plugDef)
    /\ ~isEnhancedPerk(plugDef)

createPerk(plugDef, isCurated, curatedExclusive, isDeprecated) ==
    [hash |-> plugDef.hash,
     name |-> plugDef.displayProperties.name,
     description |-> plugDef.displayProperties.description,
     itemType |-> plugDef.itemTypeDisplayName,
     iconSrc |-> prefixBungieOrNull(plugDef.displayProperties.icon),
     isCurated |-> isCurated,
     curatedExclusive |-> curatedExclusive,
     isDeprecated |-> isDeprecated]

RECURSIVE reusablePerks(_, _, _, _)
reusablePerks(plugs, socket, tbls, seenHashes) ==
    IF plugs = <<>> THEN <<>>
    ELSE LET plug == Head(plugs)
             plugDef == itemDefOf(tbls, plug.plugItemHash)
         IN  IF ~hasItemDef(tbls, plug.plugItemHash) \/ ~isValidPerk(plugDef)
             THEN reusablePerks(Tail(plugs), socket, tbls, seenHashes)
             ELSE IF plugDef.hash \in seenHashes
             THEN reusablePerks(Tail(plugs), socket, tbls, seenHashes)
             ELSE <<createPerk(plugDef,
                               plug.plugItemHash = socket.singleInitialItemHash,
                               FALSE, FALSE)>>
                  \o reusablePerks(Tail(plugs), socket, tbls,
                                   seenHashes \cup {plugDef.hash})

getPerksFromReusablePlugItems(socket, tbls) ==
    reusablePerks(socket.reusablePlugItems, socket, tbls, {})

\* the column of getFixedPerk: <<>> stands for the null result
getFixedPerk(socket, tbls) ==
    LET plugDef == itemDefOf(tbls, socket.singleInitialItemHash)
    IN  IF socket.singleInitialItemHash = 0 THEN <<>>
        ELSE IF ~hasItemDef(tbls, socket.singleInitialItemHash) THEN <<>>
        ELSE IF ~isValidPerk(plugDef) THEN <<>>
        ELSE <<createPerk(plugDef, TRUE, TRUE, FALSE)>>

RECURSIVE poolPerksCuratedAsExclusive(_, _, _)
poolPerksCuratedAsExclusive(plugs, curatedHashes, tbls) ==
    IF plugs = <<>> THEN <<>>
    ELSE LET plug == Head(plugs)
             plugDef == itemDefOf(tbls, plug.plugItemHash)
         IN  IF ~hasItemDef(tbls, plug.plugItemHash) \/ ~isValidPerk(plugDef)
             THEN poolPerksCuratedAsExclusive(Tail(plugs), curatedHashes, tbls)
             ELSE <<createPerk(plugDef,
                               Includes(curatedHashes, plug.plugItemHash),
                               Includes(curatedHashes, plug.plugItemHash),
                               ~plug.currentlyCanRoll)>>
                  \o poolPerksCuratedAsExclusive(Tail(plugs), curatedHashes, tbls)

RECURSIVE poolPerks(_, _, _)
poolPerks(plugs, curatedHashes, tbls) ==
    IF plugs = <<>> THEN <<>>
    ELSE LET plug == Head(plugs)
             plugDef == itemDefOf(tbls, plug.plugItemHash)
         IN  IF ~hasItemDef(tbls, plug.plugItemHash) \/ ~isValidPerk(plugDef)
             THEN poolPerks(Tail(plugs), curatedHashes, tbls)
             ELSE <<createPerk(plugDef,
                               Includes(curatedHashes, plug.plugItemHash),
                               FALSE,
                               ~plug.currentlyCanRoll)>>
                  \o poolPerks(Tail(plugs), curatedHashes, tbls)

RECURSIVE curatedExclusivePerks(_, _, _)
curatedExclusivePerks(curatedHashes, randomPoolHashes, tbls) ==
    IF curatedHashes = <<>> THEN <<>>
    ELSE LET curatedHash == Head(curatedHashes)
             plugDef == itemDefOf(tbls, curatedHash)
             rest == curatedExclusivePerks(Tail(curatedHashes), randomPoolHashes, tbls)
         IN  IF curatedHash \in randomPoolHashes THEN rest
             ELSE IF ~hasItemDef(tbls, curatedHash) \/ ~isValidPerk(plugDef) THEN rest
             ELSE <<createPerk(plugDef, TRUE, TRUE, FALSE)>> \o rest

getPerksFromPlugSetCuratedFirst(socket, plugSet, tbls) ==
    LET curatedHashes == getCuratedPlugHashes(socket)
        randomPoolHashes == {plugSet.reusablePlugItems[i].plugItemHash :
                                i \in 1..Len(plugSet.reusablePlugItems)}
    IN  curatedExclusivePerks(curatedHashes, randomPoolHashes, tbls)
        \o poolPerks(plugSet.reusablePlugItems, curatedHashes, tbls)

getPerksFromPlugSet(socket, plugSet, tbls) ==
    LET curatedHashes == getCuratedPlugHashes(socket)
        randomPoolHashes == {plugSet.reusablePlugItems[i].plugItemHash :
                                i \in 1..Len(plugSet.reusablePlugItems)}
    IN  poolPerks(plugSet.reusablePlugItems, curatedHashes, tbls)
        \o curatedExclusivePerks(curatedHashes, randomPoolHashes, tbls)

RECURSIVE perkColumnsReusableFirst(_, _)
perkColumnsReusableFirst(sockets, tbls) ==
    IF sockets = <<>> THEN <<>>
    ELSE LET socket == Head(sockets)
             rest == perkColumnsReusableFirst(Tail(sockets), tbls)
             plugSetHash == IF socket.reusablePlugSetHash # UndefNum
                            THEN socket.reusablePlugSetHash
                            ELSE socket.randomizedPlugSetHash
             direct == getPerksFromReusablePlugItems(socket, tbls)
             fixedPerk == getFixedPerk(socket, tbls)
             plugSet == tbls.DestinyPlugSetDefinition[String(plugSetHash)]
             perks == getPerksFromPlugSet(socket, plugSet, tbls)
         IN  IF socket.socketTypeHash = Tracker THEN rest
             ELSE IF plugSetHash = UndefNum
             THEN IF Len(socket.reusablePlugItems) > 0
                  THEN (IF Len(direct) > 0 THEN <<direct>> ELSE <<>>) \o rest
                  ELSE (IF fixedPerk # <<>> THEN <<fixedPerk>> ELSE <<>>) \o rest
             ELSE IF String(plugSetHash) \notin DOMAIN tbls.DestinyPlugSetDefinition
             THEN rest
             ELSE (IF Len(perks) > 0 THEN <<perks>> ELSE <<>>) \o rest

RECURSIVE perkColumns(_, _)
perkColumns(sockets, tbls) ==
    IF sockets = <<>> THEN <<>>
    ELSE LET socket == Head(sockets)
             rest == perkColumns(Tail(sockets), tbls)
             plugSetHash == IF socket.randomizedPlugSetHash # UndefNum
                            THEN socket.randomizedPlugSetHash
                            ELSE socket.reusablePlugSetHash
             direct == getPerksFromReusablePlugItems(socket, tbls)
             fixedPerk == getFixedPerk(socket, tbls)
             plugSet == tbls.DestinyPlugSetDefinition[String(plugSetHash)]
             perks == getPerksFromPlugSet(socket, plugSet, tbls)
         IN  IF socket.socketTypeHash = Tracker THEN rest
             ELSE IF plugSetHash = UndefNum
             THEN IF Len(socket.reusablePlugItems) > 0
                  THEN (IF Len(direct) > 0 THEN <<direct>> ELSE <<>>) \o rest
                  ELSE (IF fixedPerk # <<>> THEN <<fixedPerk>> ELSE <<>>) \o rest
             ELSE IF String(plugSetHash) \notin DOMAIN tbls.DestinyPlugSetDefinition
             THEN rest
             ELSE (IF Len(perks) > 0 THEN <<perks>> ELSE <<>>) \o rest

getPerksKeepingEmpty(itemDef, tbls) ==
    LET sockets == SelectSeq(getSocketsByCategory(itemDef, WeaponPerks),
                             LAMBDA socket : socket.socketTypeHash # Tracker)
        column(socket) == perkColumns(<<socket>>, tbls)
    IN  [i \in 1..Len(sockets) |->
            IF column(sockets[i]) = <<>> THEN <<>> ELSE column(sockets[i])[1]]

getPerks(itemDef, tbls) ==
    perkColumns(getSocketsByCategory(itemDef, WeaponPerks), tbls)

\* getPerks reads .length of socket.reusablePlugItems (no plug set) or
\* iterates it (getCuratedPlugHashes, plug set found); on a socket entry
\* that lacks the list either is a TypeError.  A tracker socket and a
\* socket whose plug set is not in the table are left before the read.
getPerksThrows(itemDef, tbls) ==
    LET sockets == getSocketsByCategory(itemDef, WeaponPerks)
        plugSetHash(socket) == IF socket.randomizedPlugSetHash # UndefNum
                               THEN socket.randomizedPlugSetHash
                               ELSE socket.reusablePlugSetHash
    IN  \E i \in 1..Len(sockets) :
            /\ sockets[i].socketTypeHash # Tracker
            /\ sockets[i].reusablePlugItems = UndefList
            /\ \/ plugSetHash(sockets[i]) = UndefNum
               \/ String(plugSetHash(sockets[i])) \in DOMAIN tbls.DestinyPlugSetDefinition

toWeaponConciseByItemType(weaponFull) ==
    [hash |-> weaponFull.hash,
     name |-> weaponFull.item.name,
     tierType |-> weaponFull.item.tierType,
     itemType |-> weaponFull.item.itemType,
     damageType |-> weaponFull.item.damageType,
     slot |-> weaponFull.item.slot,
     ammoType |-> weaponFull.item.ammoType,
     source |-> weaponFull.item.source,
     iconSrc |-> weaponFull.item.iconSrc,
     watermarkSrc |-> weaponFull.item.watermarkSrc,
     watermarkFeaturedSrc |-> weaponFull.item.watermarkFeaturedSrc,
     isCraftable |-> weaponFull.item.isCraftable,
     isAdept |-> weaponFull.item.isAdept,
     isHolofoil |-> weaponFull.item.isHolofoil,
     isFeatured |-> weaponFull.item.isFeatured,
     season |-> weaponFull.item.season,
     event |-> weaponFull.item.event,
     frame |-> IF weaponFull.frame = NullObj THEN "" ELSE weaponFull.frame.name,
     perks |-> [i \in 1..Len(weaponFull.perks) |->
                  [j \in 1..Len(weaponFull.perks[i]) |-> weaponFull.perks[i][j].itemType]]]

toWeaponConcise(weaponFull) ==
    [hash |-> weaponFull.hash,
     name |-> weaponFull.item.name,
     tierType |-> weaponFull.item.tierType,
     itemType |-> weaponFull.item.itemType,
     damageType |-> weaponFull.item.damageType,
     slot |-> weaponFull.item.slot,
     ammoType |-> weaponFull.item.ammoType,
     source |-> weaponFull.item.source,
     iconSrc |-> weaponFull.item.iconSrc,
     watermarkSrc |-> weaponFull.item.watermarkSrc,
     watermarkFeaturedSrc |-> weaponFull.item.watermarkFeaturedSrc,
     isCraftable |-> weaponFull.item.isCraftable,
     isAdept |-> weaponFull.item.isAdept,
     isHolofoil |-> weaponFull.item.isHolofoil,
     isFeatured |-> weaponFull.item.isFeatured,
     season |-> weaponFull.item.season,
     event |-> weaponFull.item.event,
     frame |-> IF weaponFull.frame = NullObj THEN "" ELSE weaponFull.frame.name,
     perks |-> [i \in 1..Len(weaponFull.perks) |->
                  [j \in 1..Len(weaponFull.perks[i]) |-> weaponFull.perks[i][j].name]]]

\* the body of the try block for one qualifying item
buildWeaponFull(itemDef, tbls, d2ai, collectibles) ==
    [hash |-> itemDef.hash,
     item |-> extractWeaponItem(itemDef, tbls, d2ai, collectibles),
     frame |-> getFrame(itemDef, tbls),
     intrinsics |-> getIntrinsics(itemDef, tbls),
     perks |-> getPerks(itemDef, tbls)]

\* the item makes the try block throw (and is skipped by the catch)
buildThrows(itemDef, tbls) ==
    getWatermarkThrows(itemDef) \/ getPerksThrows(itemDef, tbls)

RECURSIVE transformEach(_, _, _, _)
transformEach(weaponDefs, tbls, d2ai, collectibles) ==
    IF weaponDefs = <<>> THEN <<>>
    ELSE IF buildThrows(Head(weaponDefs), tbls)
         THEN transformEach(Tail(weaponDefs), tbls, d2ai, collectibles)
         ELSE <<buildWeaponFull(Head(weaponDefs), tbls, d2ai, collectibles)>>
              \o transformEach(Tail(weaponDefs), tbls, d2ai, collectibles)

transformWeaponsWithoutCatch(tbls, d2ai, universe) ==
    LET inventoryItems == ObjectValues(tbls.DestinyInventoryItemDefinition, universe)
        collectibles == collectibleByItemHash(tbls, universe)
        weaponDefs == SelectSeq(inventoryItems, isWeapon)
        full == IF \E i \in 1..Len(weaponDefs) : buildThrows(weaponDefs[i], tbls)
                THEN <<>>
                ELSE transformEach(weaponDefs, tbls, d2ai, collectibles)
    IN  [full |-> full,
         concise |-> [i \in 1..Len(full) |-> toWeaponConcise(full[i])]]

transformWeapons(tbls, d2ai, universe) ==
    LET inventoryItems == ObjectValues(tbls.DestinyInventoryItemDefinition, universe)
        collectibles == collectibleByItemHash(tbls, universe)
        weaponDefs == SelectSeq(inventoryItems, isWeapon)
        full == transformEach(weaponDefs, tbls, d2ai, collectibles)
    IN  [full |-> full,
         concise |-> [i \in 1..Len(full) |-> toWeaponConcise(full[i])]]

\* ------------------------------------------------------------------------
\* The remote side: published manifest versions and the d2ai-module files
\* ------------------------------------------------------------------------
NumVersions == 2

\* the number of calls of the exported operations that are followed
MaxCalls == 2

TableNames == {"DestinyInventoryItemDefinition", "DestinyPlugSetDefinition",
               "DestinyCollectibleDefinition", "DestinyDamageTypeDefinition",
               "DestinySocketTypeDefinition", "DestinySocketCategoryDefinition"}

D2AIFiles == {"watermark-to-season.json", "watermark-to-event.json",
              "source-to-season-v2.json", "seasons.json", "events.json",
              "craftable-hashes.json"}

\* Response.version of manifest number v
VersionToken(v) == "v" \o ToString(v)

NoSockets == [present |-> FALSE, socketEntries |-> <<>>, socketCategories |-> <<>>]

PlainItem(hash, name) ==
    [hash |-> hash,
     displayProperties |-> [name |-> name, description |-> "", icon |-> UndefStr],
     flavorText |-> "",
     itemTypeDisplayName |-> "",
     itemCategoryHashes |-> UndefSet,
     inventory |-> [bucketTypeHash |-> UndefStr, tierType |-> UndefNum],
     equippingBlock |-> [ammoType |-> UndefNum],
     defaultDamageTypeHash |-> UndefNum,
     redacted |-> FALSE,
     iconWatermark |-> "",
     iconWatermarkShelved |-> "",
     iconWatermarkFeatured |-> UndefStr,
     screenshot |-> UndefStr,
     secondaryIcon |-> UndefStr,
     isAdept |-> FALSE,
     isHolofoil |-> FALSE,
     isFeaturedItem |-> FALSE,
     plug |-> [plugCategoryHash |-> UndefStr],
     sockets |-> NoSockets]

WeaponItem(hash, name, bucket) ==
    [PlainItem(hash, name) EXCEPT
        !.itemTypeDisplayName = "Hand Cannon",
        !.itemCategoryHashes = {Weapon, HandCannon},
        !.inventory = [bucketTypeHash |-> bucket, tierType |-> 5],
        !.equippingBlock = [ammoType |-> 1]]

PlugItem(hash, name, category, tier) ==
    [PlainItem(hash, name) EXCEPT
        !.itemTypeDisplayName = "Trait",
        !.inventory = [bucketTypeHash |-> UndefStr, tierType |-> tier],
        !.plug = [plugCategoryHash |-> category]]

Socket(type, single, reusable, randomized, reusableSet) ==
    [socketTypeHash |-> type,
     singleInitialItemHash |-> single,
     reusablePlugItems |-> [i \in 1..Len(reusable) |-> [plugItemHash |-> reusable[i]]],
     randomizedPlugSetHash |-> randomized,
     reusablePlugSetHash |-> reusableSet]

FatebringerSockets ==
    [present |-> TRUE,
     socketEntries |-> <<Socket("1", 20, <<>>, UndefNum, UndefNum),
                         Socket("2", 21, <<21>>, 900, UndefNum),
                         Socket("2", 23, <<>>, UndefNum, UndefNum),
                         Socket(Tracker, 22, <<>>, UndefNum, UndefNum)>>,
     socketCategories |-> <<[socketCategoryHash |-> IntrinsicTraits, socketIndexes |-> <<0>>],
                            [socketCategoryHash |-> WeaponPerks, socketIndexes |-> <<1, 2, 3>>]>>]

\* the JSON tables served under the content paths of manifest number v
TablesAt(v) ==
    [DestinyInventoryItemDefinition |->
        (String(1) :> [WeaponItem(1, "Fatebringer", KineticWeapons) EXCEPT
                          !.iconWatermark = "/wm1",
                          !.defaultDamageTypeHash = 800,
                          !.displayProperties.icon = "/icon1",
                          !.sockets = FatebringerSockets])
        @@ (String(2) :> [WeaponItem(2, "Gjallarhorn", PowerWeapons) EXCEPT
                          !.iconWatermark = UndefStr])
        @@ (String(3) :> [WeaponItem(3, "Classified", EnergyWeapons) EXCEPT
                          !.redacted = TRUE])
        @@ (String(4) :> [WeaponItem(4, "Ikelos", EnergyWeapons) EXCEPT
                          !.iconWatermarkShelved = "/wm2"])
        @@ (String(10 + v) :> WeaponItem(10 + v, "Weapon" \o ToString(v), KineticWeapons))
        @@ (String(20) :> [PlugItem(20, "Adaptive Frame", "7", 2) EXCEPT
                          !.displayProperties.description = "A well-rounded grip.",
                          !.displayProperties.icon = "/icon20"])
        @@ (String(21) :> PlugItem(21, "Outlaw", "7", 2))
        @@ (String(22) :> PlugItem(22, "Rampage", "7", 2))
        @@ (String(23) :> [PlugItem(23, "Veist Stinger", "8", 2) EXCEPT
                          !.itemCategoryHashes = {WeaponModsOriginTraits}])
        @@ (String(24) :> PlugItem(24, "Outlaw", "7", ENHANCED_PERK_TIER_TYPE))
        @@ (String(25) :> PlugItem(25, "Empty", EmptySocketPlug, 2))
        @@ (String(26) :> PlugItem(26, "", "7", 2))
        @@ (String(27) :> [PlugItem(27, "Hakke Breach Armaments", "8", 2) EXCEPT
                          !.itemCategoryHashes = {WeaponModsOriginTraits}]),
     DestinyPlugSetDefinition |->
        (String(900) :> [reusablePlugItems |->
                           <<[plugItemHash |-> 21, currentlyCanRoll |-> TRUE],
                             [plugItemHash |-> 22, currentlyCanRoll |-> FALSE],
                             [plugItemHash |-> 24, currentlyCanRoll |-> TRUE],
                             [plugItemHash |-> 25, currentlyCanRoll |-> TRUE]>>])
        @@ (String(901) :> [reusablePlugItems |->
                           <<[plugItemHash |-> 21, currentlyCanRoll |-> TRUE],
                             [plugItemHash |-> 22, currentlyCanRoll |-> TRUE],
                             [plugItemHash |-> 21, currentlyCanRoll |-> FALSE]>>])
        @@ (String(902) :> [reusablePlugItems |->
                           <<[plugItemHash |-> 24, currentlyCanRoll |-> TRUE],
                             [plugItemHash |-> 25, currentlyCanRoll |-> TRUE],
                             [plugItemHash |-> 26, currentlyCanRoll |-> TRUE]>>])
        @@ (String(903) :> [reusablePlugItems |->
                           <<[plugItemHash |-> 21, currentlyCanRoll |-> TRUE],
                             [plugItemHash |-> 23, currentlyCanRoll |-> TRUE],
                             [plugItemHash |-> 22, currentlyCanRoll |-> FALSE]>>]),
     DestinyCollectibleDefinition |->
        (String(700) :> [itemHash |-> 4, sourceHash |-> 500])
        @@ (String(701) :> [itemHash |-> 1, sourceHash |-> UndefNum]),
     DestinyDamageTypeDefinition |->
        (String(800) :> [enumValue |-> 1, displayProperties |-> [icon |-> "/dmg1"]]),
     DestinySocketTypeDefinition |-> (String(1) :> [hash |-> 1]),
     DestinySocketCategoryDefinition |-> (String(1) :> [hash |-> 1])]

\* the hashes that key the tables of manifest number v
HashesAt(v) == {1, 2, 3, 4, 10 + v, 20, 21, 22, 23, 24, 25, 26, 27,
                700, 701, 800, 900, 901, 902, 903}

\* the contents of the six d2ai-module files
D2AIRemote ==
    [watermarkToSeason |-> ("/wm1" :> 20),
     watermarkToEvent |-> ("/wm2" :> 3),
     sourceToSeason |-> (String(500) :> 18),
     seasons |-> (String(1) :> 9) @@ (String(11) :> 11),
     events |-> (String(1) :> 2),
     craftableHashes |-> <<4>>]

\* ------------------------------------------------------------------------
\* State
\* ------------------------------------------------------------------------
Tasks == {"t1", "t2"}

VARIABLES
    metadata,        \* db.metadata: key -> value
    weapons,         \* db.weapons: hash -> WeaponFull
    weaponsConcise,  \* db.weaponsConcise: hash -> WeaponConcise
    helperData,      \* db.helperData: key -> data
    manifest,        \* number of the manifest currently published by the server
    pc,              \* per call: the await it is suspended at
    op,              \* per call: the entry point that was invoked
    remoteVersion,   \* per call: local of loadManifest
    paths,           \* per call: local of loadManifest
    tables,          \* per call: state of the fetchManifestTables promise
    d2pc,            \* per call: the await loadD2AIData is suspended at
    d2failed,        \* per call: the d2ai files whose fetch failed
    d2aiData,        \* per call: the value loadD2AIData resolved to
    result,          \* per call: how the call settled
    wrote,           \* per call: the call has changed token or weapon records
    calls,           \* number of calls made so far
    tin,             \* transformWeapons harness: input tables
    tout,            \* transformWeapons harness: output
    wishlists,       \* db.wishlists: id -> Wishlist
    rollCalls,       \* per roll operation: its arguments, locals and the await it is at
    generated        \* number of ids generateId has handed out

dbVars == <<metadata, weapons, weaponsConcise, helperData>>
callVars == <<pc, op, remoteVersion, paths, tables, d2pc, d2failed, d2aiData, result, wrote,
              calls>>
vars == <<metadata, weapons, weaponsConcise, helperData, manifest, pc, op, remoteVersion,
          paths, tables, d2pc, d2failed, d2aiData, result, wrote, calls, tin, tout,
          wishlists, rollCalls, generated>>
rollVars == <<wishlists, rollCalls, generated>>

EmptyTable == [k \in {} |-> 0]

\* Dexie table operations
TableGet(table, key) == table[key]
TableHas(table, key) == key \in DOMAIN table
TablePut(table, key, value) == [k \in DOMAIN table \cup {key} |-> IF k = key THEN value ELSE table[k]]
TableDelete(table, key) == [k \in DOMAIN table \ {key} |-> table[k]]
TableCount(table) == Cardinality(DOMAIN table)

\* bulkPut(records) into a table keyed by hash: a later record replaces an
\* earlier one with the same key
BulkPut(table, records) ==
    LET last(h) == CHOOSE i \in 1..Len(records) :
                      /\ records[i].hash = h
                      /\ \A j \in (i + 1)..Len(records) : records[j].hash # h
        keys == {records[i].hash : i \in 1..Len(records)}
    IN  [h \in DOMAIN table \cup keys |-> IF h \in keys THEN records[last(h)] ELSE table[h]]

UndefPaths == ("<undefined>" :> 0)
NoD2AI == [none |-> TRUE]
NoResult == [status |-> "none", version |-> UndefStr, weaponCount |-> 0,
             cached |-> FALSE, error |-> ""]
Rejected(message) == [NoResult EXCEPT !.status = "error", !.error = message]
Resolved(version, weaponCount, cached) ==
    [status |-> "ok", version |-> version, weaponCount |-> weaponCount,
     cached |-> cached, error |-> ""]

EmptyD2AI ==
    [watermarkToSeason |-> EmptyTable,
     watermarkToEvent |-> EmptyTable,
     sourceToSeason |-> EmptyTable,
     seasons |-> EmptyTable,
     events |-> EmptyTable,
     craftableHashes |-> <<>>]

NoInput == [candidate |-> 0]

\* the two roll operations that may overlap
RollTasks == {"u1", "u2"}
NoWishlist == [none |-> TRUE]
NoRollCall == [pc |-> "idle", fn |-> "none", weaponHash |-> 0, rollId |-> UndefStr,
               usage |-> UndefStr, rollIds |-> <<>>, newId |-> UndefStr,
               wishlist |-> NoWishlist, returned |-> "none"]

\* no wishlist is stored and no roll operation is under way
NoRollCalls ==
    /\ wishlists = EmptyTable
    /\ rollCalls = [u \in RollTasks |-> NoRollCall]
    /\ generated = 0
NoOutput == [ran |-> FALSE, full |-> <<>>, concise |-> <<>>]

Init ==
    /\ metadata = EmptyTable
    /\ weapons = EmptyTable
    /\ weaponsConcise = EmptyTable
    /\ helperData = EmptyTable
    /\ manifest = 1
    /\ pc = [t \in Tasks |-> "idle"]
    /\ op = [t \in Tasks |-> "none"]
    /\ remoteVersion = [t \in Tasks |-> UndefStr]
    /\ paths = [t \in Tasks |-> UndefPaths]
    /\ tables = [t \in Tasks |-> "none"]
    /\ d2pc = [t \in Tasks |-> "none"]
    /\ d2failed = [t \in Tasks |-> {}]
    /\ d2aiData = [t \in Tasks |-> NoD2AI]
    /\ result = [t \in Tasks |-> NoResult]
    /\ wrote = [t \in Tasks |-> FALSE]
    /\ calls = 0
    /\ tin = NoInput
    /\ tout = NoOutput
    /\ NoRollCalls

\* ------------------------------------------------------------------------
\* services/manifest/api.ts
\* ------------------------------------------------------------------------

\* what the metadata endpoint answers
MetadataShapes == {"ok", "httpError", "noResponse", "noVersion", "noPathMap",
                   "noLanguage", "noTablePath"}

\* fetchManifestMetadata against an answer of the given shape for manifest v
fetchManifestMetadata(shape, v) ==
    CASE shape = "httpError" ->
            [threw |-> TRUE, version |-> UndefStr, paths |-> UndefPaths]
      [] shape = "noResponse" ->
            [threw |-> TRUE, version |-> UndefStr, paths |-> UndefPaths]
      [] shape = "noPathMap" ->
            \* data.Response.jsonWorldComponentContentPaths is undefined: reading .en throws
            [threw |-> TRUE, version |-> UndefStr, paths |-> UndefPaths]
      [] shape = "noVersion" ->
            [threw |-> FALSE, version |-> UndefStr, paths |-> [tn \in TableNames |-> v]]
      [] shape = "noLanguage" ->
            [threw |-> FALSE, version |-> VersionToken(v), paths |-> UndefPaths]
      [] shape = "noTablePath" ->
            [threw |-> FALSE, version |-> VersionToken(v),
             paths |-> [tn \in TableNames \ {"DestinyPlugSetDefinition"} |-> v]]
      [] OTHER ->
            [threw |-> FALSE, version |-> VersionToken(v), paths |-> [tn \in TableNames |-> v]]

\* fetchManifestTables resolves iff every table has a path and every fetch answers ok
fetchManifestTablesResolves(p, failing) ==
    /\ p # UndefPaths
    /\ \A tn \in TableNames : tn \in DOMAIN p
    /\ failing = {}

\* the sets of tables whose fetch answers !ok that are tried: none, one
TableFailureCases == {{}, {"DestinyInventoryItemDefinition"}}

\* the tables object fetchManifestTables resolves to
fetchManifestTables(p) == [tn \in TableNames |-> TablesAt(p[tn])[tn]]

\* ------------------------------------------------------------------------
\* services/manifest/d2ai.ts
\* ------------------------------------------------------------------------

\* the sets of failing d2ai files that are tried: none, a single one, all six
D2AIFailureCases == {{}, {"seasons.json"}, D2AIFiles}

\* how loadD2AIData settles after the six fetches, `failed` being those that threw
loadD2AIDataRethrows(failed) ==
    IF failed = {}
    THEN [rejected |-> FALSE, cache |-> TRUE, data |-> D2AIRemote]
    ELSE [rejected |-> TRUE, cache |-> FALSE, data |-> NoD2AI]

loadD2AIDataCachesFallback(failed) ==
    IF failed = {}
    THEN [rejected |-> FALSE, cache |-> TRUE, data |-> D2AIRemote]
    ELSE [rejected |-> FALSE, cache |-> TRUE, data |-> EmptyD2AI]

loadD2AIDataSettles(failed) ==
    IF failed = {}
    THEN [rejected |-> FALSE, cache |-> TRUE, data |-> D2AIRemote]
    ELSE [rejected |-> FALSE, cache |-> FALSE, data |-> EmptyD2AI]

\* ------------------------------------------------------------------------
\* services/manifest/loader.ts
\* ------------------------------------------------------------------------
extractDamageTypeIcons(tbls) ==
    LET defs == tbls.DestinyDamageTypeDefinition
        withIcon == {k \in DOMAIN defs : prefixBungieOrNull(defs[k].displayProperties.icon) # NullStr}
    IN  [e \in {defs[k].enumValue : k \in withIcon} |->
            prefixBungieOrNull(defs[CHOOSE k \in withIcon : defs[k].enumValue = e].displayProperties.icon)]

\* steps 5 and 5b are pure, so what they make of each published manifest with
\* each outcome of loadD2AIData is computed once
Transformed ==
    {[v |-> v, data |-> data,
      w |-> transformWeapons(TablesAt(v), data, HashesAt(v)),
      icons |-> extractDamageTypeIcons(TablesAt(v))] :
        v \in 1..NumVersions, data \in {D2AIRemote, EmptyD2AI}}

\* every path of p leads to a table of the same published manifest
SameManifest(p) == \A tn \in TableNames : p[tn] = p["DestinyInventoryItemDefinition"]

\* step 5: the records of this sync
transformOf(p, data) ==
    LET v == p["DestinyInventoryItemDefinition"]
    IN  IF SameManifest(p) /\ data \in {D2AIRemote, EmptyD2AI}
        THEN (CHOOSE m \in Transformed : m.v = v /\ m.data = data).w
        ELSE transformWeapons(fetchManifestTables(p), data, HashesAt(v))

\* step 5b: the damage type icons of this sync
damageTypeIconsOf(p) ==
    LET v == p["DestinyInventoryItemDefinition"]
    IN  IF SameManifest(p)
        THEN (CHOOSE m \in Transformed : m.v = v).icons
        ELSE extractDamageTypeIcons(fetchManifestTables(p))

\* step 6: the contents of the four tables when the transaction commits
persistTornVersionOnly(cur, version, w, icons) ==
    [metadata |-> TablePut(cur.metadata, "version", version),
     weapons |-> cur.weapons,
     weaponsConcise |-> cur.weaponsConcise,
     helperData |-> TablePut(cur.helperData, "damageTypeIcons", icons)]

persistKeepsOldRecords(cur, version, w, icons) ==
    [metadata |-> TablePut(cur.metadata, "version", version),
     weapons |-> BulkPut(cur.weapons, w.full),
     weaponsConcise |-> BulkPut(cur.weaponsConcise, w.concise),
     helperData |-> TablePut(cur.helperData, "damageTypeIcons", icons)]

persistIntoEmptyOnly(cur, version, w, icons) ==
    [metadata |-> TablePut(cur.metadata, "version", version),
     weapons |-> IF TableCount(cur.weapons) = 0
                 THEN BulkPut(EmptyTable, w.full) ELSE EmptyTable,
     weaponsConcise |-> IF TableCount(cur.weaponsConcise) = 0
                        THEN BulkPut(EmptyTable, w.concise) ELSE EmptyTable,
     helperData |-> TablePut(cur.helperData, "damageTypeIcons", icons)]

persistReplacingHelperData(cur, version, w, icons) ==
    [metadata |-> TablePut(cur.metadata, "version", version),
     weapons |-> BulkPut(EmptyTable, w.full),
     weaponsConcise |-> BulkPut(EmptyTable, w.concise),
     helperData |-> TablePut(EmptyTable, "damageTypeIcons", icons)]

persist(cur, version, w, icons) ==
    [metadata |-> TablePut(cur.metadata, "version", version),
     weapons |-> BulkPut(EmptyTable, w.full),
     weaponsConcise |-> BulkPut(EmptyTable, w.concise),
     helperData |-> TablePut(cur.helperData, "damageTypeIcons", icons)]

db == [metadata |-> metadata, weapons |-> weapons,
       weaponsConcise |-> weaponsConcise, helperData |-> helperData]

\* the call has changed the token or a weapon collection in this step
Changed == metadata' # metadata \/ weapons' # weapons \/ weaponsConcise' # weaponsConcise

\* a caller invokes loadManifest or forceManifestRefresh
Start(t, o) ==
    /\ pc[t] \in {"idle", "done"}
    /\ d2pc[t] \in {"none", "done"}
    /\ calls < MaxCalls
    /\ calls' = calls + 1
    /\ op' = [op EXCEPT ![t] = o]
    /\ pc' = [pc EXCEPT ![t] = IF o = "forceManifestRefresh"
                               THEN "deleteVersion" ELSE "fetchMetadata"]
    /\ remoteVersion' = [remoteVersion EXCEPT ![t] = UndefStr]
    /\ paths' = [paths EXCEPT ![t] = UndefPaths]
    /\ tables' = [tables EXCEPT ![t] = "none"]
    /\ d2pc' = [d2pc EXCEPT ![t] = "none"]
    /\ d2failed' = [d2failed EXCEPT ![t] = {}]
    /\ d2aiData' = [d2aiData EXCEPT ![t] = NoD2AI]
    /\ result' = [result EXCEPT ![t] = NoResult]
    /\ wrote' = [wrote EXCEPT ![t] = FALSE]
    /\ UNCHANGED <<dbVars, manifest, tin, tout, rollVars>>

\* forceManifestRefresh: await db.metadata.delete("version")
DeleteVersion(t) ==
    /\ pc[t] = "deleteVersion"
    /\ metadata' = TableDelete(metadata, "version")
    /\ pc' = [pc EXCEPT ![t] = "fetchMetadata"]
    /\ UNCHANGED <<weapons, weaponsConcise, helperData, manifest, op, remoteVersion, paths,
                   tables, d2pc, d2failed, d2aiData, result, calls, tin, tout, rollVars>>
    /\ wrote' = [wrote EXCEPT ![t] = wrote[t] \/ Changed]

\* loadManifest step 1: await fetchManifestMetadata()
FetchMetadata(t) ==
    /\ pc[t] = "fetchMetadata"
    /\ \E shape \in MetadataShapes :
          LET r == fetchManifestMetadata(shape, manifest)
          IN  IF r.threw
              THEN /\ pc' = [pc EXCEPT ![t] = "done"]
                   /\ result' = [result EXCEPT ![t] = Rejected("metadata")]
                   /\ UNCHANGED <<remoteVersion, paths>>
              ELSE /\ pc' = [pc EXCEPT ![t] = "getVersion"]
                   /\ remoteVersion' = [remoteVersion EXCEPT ![t] = r.version]
                   /\ paths' = [paths EXCEPT ![t] = r.paths]
                   /\ UNCHANGED result
    /\ UNCHANGED <<dbVars, manifest, op, tables, d2pc, d2failed, d2aiData, wrote, calls, tin, tout, rollVars>>

GetVersionAlwaysDownloads(t) ==
    /\ pc[t] = "getVersion"
    /\ pc' = [pc EXCEPT ![t] = "download"]
    /\ tables' = [tables EXCEPT ![t] = "pending"]
    /\ d2pc' = [d2pc EXCEPT ![t] = "get"]
    /\ UNCHANGED <<dbVars, manifest, op, remoteVersion, paths, d2failed, d2aiData, result,
                   wrote, calls, tin, tout, rollVars>>

\* loadManifest steps 2-4: await db.metadata.get("version"), compare, and
\* either go on to count or start both downloads
GetVersion(t) ==
    /\ pc[t] = "getVersion"
    /\ LET cachedVersion == IF TableHas(metadata, "version")
                            THEN TableGet(metadata, "version") ELSE UndefStr
       IN  IF cachedVersion = remoteVersion[t]
           THEN /\ pc' = [pc EXCEPT ![t] = "count"]
                /\ UNCHANGED <<tables, d2pc>>
           ELSE /\ pc' = [pc EXCEPT ![t] = "download"]
                /\ tables' = [tables EXCEPT ![t] = "pending"]
                /\ d2pc' = [d2pc EXCEPT ![t] = "get"]
    /\ UNCHANGED <<dbVars, manifest, op, remoteVersion, paths, d2failed, d2aiData, result,
                   wrote, calls, tin, tout, rollVars>>

\* the locals of a loadManifest call go out of scope when it settles
Settled(t, r) ==
    /\ pc' = [pc EXCEPT ![t] = "done"]
    /\ result' = [result EXCEPT ![t] = r]
    /\ remoteVersion' = [remoteVersion EXCEPT ![t] = UndefStr]
    /\ paths' = [paths EXCEPT ![t] = UndefPaths]
    /\ tables' = [tables EXCEPT ![t] = "none"]

\* loadManifest step 3: await db.weaponsConcise.count(), return cached
CountWeapons(t) ==
    /\ pc[t] = "count"
    /\ Settled(t, Resolved(remoteVersion[t], TableCount(weaponsConcise), TRUE))
    /\ UNCHANGED <<dbVars, manifest, op, d2pc, d2failed, d2aiData, wrote, calls, tin, tout, rollVars>>

\* the fetchManifestTables promise settles; a rejection rejects the
\* Promise.all of loadManifest at once, while loadD2AIData runs on
FetchTables(t) ==
    /\ pc[t] = "download"
    /\ tables[t] = "pending"
    /\ \E failing \in TableFailureCases :
          IF fetchManifestTablesResolves(paths[t], failing)
          THEN /\ tables' = [tables EXCEPT ![t] = "ok"]
               /\ pc' = [pc EXCEPT ![t] = IF d2pc[t] = "done" THEN "persist" ELSE "download"]
               /\ UNCHANGED <<result, remoteVersion, paths, d2pc, d2aiData, d2failed>>
          ELSE /\ Settled(t, Rejected("tables"))
               /\ IF d2pc[t] = "done"
                  THEN /\ d2pc' = [d2pc EXCEPT ![t] = "none"]
                       /\ d2aiData' = [d2aiData EXCEPT ![t] = NoD2AI]
                       /\ d2failed' = [d2failed EXCEPT ![t] = {}]
                  ELSE UNCHANGED <<d2pc, d2aiData, d2failed>>
    /\ UNCHANGED <<dbVars, manifest, op, wrote, calls, tin, tout, rollVars>>

\* loadD2AIData settles: the Promise.all of loadManifest, if it is still
\* pending, takes the value (or the rejection); otherwise the value is dropped
D2AISettled(t, r, failed) ==
    IF pc[t] = "download"
    THEN /\ d2pc' = [d2pc EXCEPT ![t] = "done"]
         /\ d2aiData' = [d2aiData EXCEPT ![t] = r.data]
         /\ d2failed' = [d2failed EXCEPT ![t] = failed]
         /\ IF r.rejected
            THEN Settled(t, Rejected("auxiliary"))
            ELSE /\ pc' = [pc EXCEPT ![t] = IF tables[t] = "ok" THEN "persist" ELSE "download"]
                 /\ UNCHANGED <<result, remoteVersion, paths, tables>>
    ELSE /\ d2pc' = [d2pc EXCEPT ![t] = "none"]
         /\ d2aiData' = [d2aiData EXCEPT ![t] = NoD2AI]
         /\ d2failed' = [d2failed EXCEPT ![t] = {}]
         /\ UNCHANGED <<pc, result, remoteVersion, paths, tables>>

D2AIGetIgnoringCache(t) ==
    /\ d2pc[t] = "get"
    /\ d2pc' = [d2pc EXCEPT ![t] = "fetch"]
    /\ UNCHANGED <<d2aiData, d2failed, pc, result, remoteVersion, paths, tables>>
    /\ UNCHANGED <<dbVars, manifest, op, wrote, calls, tin, tout, rollVars>>

\* loadD2AIData: await db.helperData.get("d2ai")
D2AIGet(t) ==
    /\ d2pc[t] = "get"
    /\ IF TableHas(helperData, "d2ai")
       THEN D2AISettled(t, [rejected |-> FALSE, cache |-> FALSE,
                            data |-> TableGet(helperData, "d2ai")], {})
       ELSE /\ d2pc' = [d2pc EXCEPT ![t] = "fetch"]
            /\ UNCHANGED <<d2aiData, d2failed, pc, result, remoteVersion, paths, tables>>
    /\ UNCHANGED <<dbVars, manifest, op, wrote, calls, tin, tout, rollVars>>

\* loadD2AIData: await Promise.all of the six fetchD2AIFile calls
D2AIFetch(t) ==
    /\ d2pc[t] = "fetch"
    /\ \E failed \in D2AIFailureCases :
          LET r == loadD2AIDataSettles(failed)
          IN  IF r.cache
              THEN /\ d2pc' = [d2pc EXCEPT ![t] = "put"]
                   /\ d2aiData' = [d2aiData EXCEPT ![t] = r.data]
                   /\ d2failed' = [d2failed EXCEPT ![t] = failed]
                   /\ UNCHANGED <<pc, result, remoteVersion, paths, tables>>
              ELSE D2AISettled(t, r, failed)
    /\ UNCHANGED <<dbVars, manifest, op, wrote, calls, tin, tout, rollVars>>

\* loadD2AIData: await db.helperData.put({ key: "d2ai", data }), return data;
\* a put that throws lands in the catch, which returns the empty defaults
D2AIPut(t) ==
    /\ d2pc[t] = "put"
    /\ \E stored \in BOOLEAN :
          IF stored
          THEN /\ helperData' = TablePut(helperData, "d2ai", d2aiData[t])
               /\ D2AISettled(t, [rejected |-> FALSE, cache |-> TRUE, data |-> d2aiData[t]],
                              d2failed[t])
          ELSE /\ UNCHANGED helperData
               /\ D2AISettled(t, [rejected |-> FALSE, cache |-> FALSE, data |-> EmptyD2AI],
                              d2failed[t])
    /\ UNCHANGED <<metadata, weapons, weaponsConcise, manifest, op, wrote, calls, tin, tout, rollVars>>

PersistWithoutRollback(t) ==
    /\ pc[t] = "persist"
    /\ \E commits \in BOOLEAN :
          LET w == transformOf(paths[t], d2aiData[t])
              after == persist(db, remoteVersion[t], w, damageTypeIconsOf(paths[t]))
          IN  IF commits
              THEN /\ metadata' = after.metadata
                   /\ weapons' = after.weapons
                   /\ weaponsConcise' = after.weaponsConcise
                   /\ helperData' = after.helperData
                   /\ Settled(t, Resolved(remoteVersion[t], Len(w.full), FALSE))
              ELSE /\ weapons' = EmptyTable
                   /\ weaponsConcise' = EmptyTable
                   /\ UNCHANGED <<metadata, helperData>>
                   /\ Settled(t, Rejected("transaction"))
    /\ d2pc' = [d2pc EXCEPT ![t] = "none"]
    /\ d2aiData' = [d2aiData EXCEPT ![t] = NoD2AI]
    /\ d2failed' = [d2failed EXCEPT ![t] = {}]
    /\ wrote' = [wrote EXCEPT ![t] = wrote[t] \/ Changed]
    /\ UNCHANGED <<manifest, op, calls, tin, tout, rollVars>>

PersistTornBetweenBulkPuts(t) ==
    /\ pc[t] = "persist"
    /\ \E commits \in BOOLEAN :
          LET w == transformOf(paths[t], d2aiData[t])
              after == persist(db, remoteVersion[t], w, damageTypeIconsOf(paths[t]))
          IN  IF commits
              THEN /\ metadata' = after.metadata
                   /\ weapons' = after.weapons
                   /\ weaponsConcise' = after.weaponsConcise
                   /\ helperData' = after.helperData
                   /\ Settled(t, Resolved(remoteVersion[t], Len(w.full), FALSE))
              ELSE /\ weapons' = after.weapons
                   /\ weaponsConcise' = EmptyTable
                   /\ UNCHANGED <<metadata, helperData>>
                   /\ Settled(t, Rejected("transaction"))
    /\ d2pc' = [d2pc EXCEPT ![t] = "none"]
    /\ d2aiData' = [d2aiData EXCEPT ![t] = NoD2AI]
    /\ d2failed' = [d2failed EXCEPT ![t] = {}]
    /\ wrote' = [wrote EXCEPT ![t] = wrote[t] \/ Changed]
    /\ UNCHANGED <<manifest, op, calls, tin, tout, rollVars>>

\* loadManifest steps 5-6: transform, then the rw transaction commits or aborts
Persist(t) ==
    /\ pc[t] = "persist"
    /\ \E commits \in BOOLEAN :
          LET w == transformOf(paths[t], d2aiData[t])
              after == persist(db, remoteVersion[t], w, damageTypeIconsOf(paths[t]))
          IN  IF commits
              THEN /\ metadata' = after.metadata
                   /\ weapons' = after.weapons
                   /\ weaponsConcise' = after.weaponsConcise
                   /\ helperData' = after.helperData
                   /\ Settled(t, Resolved(remoteVersion[t], Len(w.full), FALSE))
              ELSE /\ UNCHANGED dbVars
                   /\ Settled(t, Rejected("transaction"))
    /\ d2pc' = [d2pc EXCEPT ![t] = "none"]
    /\ d2aiData' = [d2aiData EXCEPT ![t] = NoD2AI]
    /\ d2failed' = [d2failed EXCEPT ![t] = {}]
    /\ wrote' = [wrote EXCEPT ![t] = wrote[t] \/ Changed]
    /\ UNCHANGED <<manifest, op, calls, tin, tout, rollVars>>

\* services/db/manifest-operations.ts: clearWeaponData (one rw transaction)
ClearWeaponData ==
    /\ calls < MaxCalls
    /\ calls' = calls + 1
    /\ weapons' = EmptyTable
    /\ weaponsConcise' = EmptyTable
    /\ metadata' = TableDelete(metadata, "version")
    /\ UNCHANGED <<helperData, manifest, pc, op, remoteVersion, paths, tables, d2pc, d2failed,
                   d2aiData, result, wrote, tin, tout, rollVars>>

\* services/manifest/d2ai.ts: clearD2AIDataCache
ClearD2AIDataCache ==
    /\ calls < MaxCalls
    /\ calls' = calls + 1
    /\ helperData' = TableDelete(helperData, "d2ai")
    /\ UNCHANGED <<metadata, weapons, weaponsConcise, manifest, pc, op, remoteVersion, paths,
                   tables, d2pc, d2failed, d2aiData, result, wrote, tin, tout, rollVars>>

\* the server publishes the next manifest
Publish ==
    /\ manifest < NumVersions
    /\ manifest' = manifest + 1
    /\ UNCHANGED <<dbVars, callVars, tin, tout, rollVars>>

Next ==
    \/ \E t \in Tasks : Start(t, "loadManifest")
    \/ \E t \in Tasks : Start(t, "forceManifestRefresh")
    \/ \E t \in Tasks : DeleteVersion(t)
    \/ \E t \in Tasks : FetchMetadata(t)
    \/ \E t \in Tasks : GetVersion(t)
    \/ \E t \in Tasks : CountWeapons(t)
    \/ \E t \in Tasks : FetchTables(t)
    \/ \E t \in Tasks : D2AIGet(t)
    \/ \E t \in Tasks : D2AIFetch(t)
    \/ \E t \in Tasks : D2AIPut(t)
    \/ \E t \in Tasks : Persist(t)
    \/ ClearWeaponData
    \/ ClearD2AIDataCache
    \/ Publish

Spec == Init /\ [][Next]_vars

\* ------------------------------------------------------------------------
\* transformWeapons on its own: one candidate item next to a plain weapon
\* ------------------------------------------------------------------------
CandidateCategories == {UndefSet, {}, {Weapon}, {Weapon, Dummies}, {HandCannon}}
CandidateBuckets == {UndefStr, KineticWeapons, EnergyWeapons, PowerWeapons, "3448274439"}
CandidateNames == {"", "Fatebringer"}
CandidateWatermarks == {UndefStr, "", "/wm1"}
CandidateShelved == {UndefStr, "", "/wm2"}

Candidate(cats, bucket, name, redacted, wm, shelved) ==
    [PlainItem(1, name) EXCEPT
        !.itemCategoryHashes = cats,
        !.inventory = [bucketTypeHash |-> bucket, tierType |-> 5],
        !.redacted = redacted,
        !.iconWatermark = wm,
        !.iconWatermarkShelved = shelved,
        !.sockets = FatebringerSockets]

\* the tables handed to transformWeapons for a candidate item
TablesWith(candidate) ==
    [TablesAt(1) EXCEPT
        !.DestinyInventoryItemDefinition =
            [k \in DOMAIN @ |-> IF k = String(1) THEN candidate ELSE @[k]]]

InitTransform ==
    /\ metadata = EmptyTable
    /\ weapons = EmptyTable
    /\ weaponsConcise = EmptyTable
    /\ helperData = EmptyTable
    /\ manifest = 1
    /\ pc = [t \in Tasks |-> "idle"]
    /\ op = [t \in Tasks |-> "none"]
    /\ remoteVersion = [t \in Tasks |-> UndefStr]
    /\ paths = [t \in Tasks |-> UndefPaths]
    /\ tables = [t \in Tasks |-> "none"]
    /\ d2pc = [t \in Tasks |-> "none"]
    /\ d2failed = [t \in Tasks |-> {}]
    /\ d2aiData = [t \in Tasks |-> NoD2AI]
    /\ result = [t \in Tasks |-> NoResult]
    /\ wrote = [t \in Tasks |-> FALSE]
    /\ calls = 0
    /\ \E cats \in CandidateCategories, bucket \in CandidateBuckets,
          name \in CandidateNames, redacted \in BOOLEAN,
          wm \in CandidateWatermarks, shelved \in CandidateShelved :
          tin = [candidate |-> Candidate(cats, bucket, name, redacted, wm, shelved)]
    /\ tout = NoOutput
    /\ NoRollCalls

\* a call of transformWeapons(tables, d2aiData)
Transform ==
    /\ ~tout.ran
    /\ LET w == transformWeapons(TablesWith(tin.candidate), D2AIRemote, HashesAt(1))
       IN  tout' = [ran |-> TRUE, full |-> w.full, concise |-> w.concise]
    /\ UNCHANGED <<dbVars, manifest, callVars, tin, rollVars>>

NextTransform == Transform

SpecTransform == InitTransform /\ [][NextTransform]_vars

\* ------------------------------------------------------------------------
\* transformWeapons on its own: a weapon whose weapon-perks category lists
\* two candidate sockets and a kill-tracker socket
\* ------------------------------------------------------------------------
PerkSockets ==
    {Socket("2", 21, <<21>>, 900, UndefNum),
     Socket("2", 21, <<21>>, 903, UndefNum),
     Socket("2", 23, <<23, 21>>, 900, UndefNum),
     Socket("2", 22, <<22, 23>>, 900, UndefNum),
     Socket("2", 0, <<>>, UndefNum, 900),
     Socket("2", 21, <<>>, 901, 900),
     Socket("2", 22, <<21, 22, 21, 24, 99>>, UndefNum, UndefNum),
     Socket("2", 23, <<>>, UndefNum, UndefNum),
     Socket("2", 24, <<>>, UndefNum, UndefNum),
     Socket("2", 0, <<24, 25, 26>>, UndefNum, UndefNum),
     Socket("2", 21, <<21>>, 999, UndefNum),
     Socket("2", 22, <<>>, 999, 900),
     Socket("2", 21, <<22, 22, 26, 23>>, 902, UndefNum),
     Socket("2", 21, <<>>, 902, UndefNum),
     [Socket("2", 21, <<>>, UndefNum, UndefNum) EXCEPT !.reusablePlugItems = UndefList],
     [Socket("2", 21, <<>>, 999, UndefNum) EXCEPT !.reusablePlugItems = UndefList]}

TrackerSocket == Socket(Tracker, 22, <<21>>, 900, UndefNum)

\* socketIndexes of the weapon-perks category: entry 1 and 2 are the
\* candidate sockets, entry 3 is the tracker, entry 9 does not exist
PerkIndexes == {<<1>>, <<1, 2>>, <<2, 1>>, <<1, 3, 2>>, <<3, 1>>, <<3, 2, 1>>, <<2, 9, 1>>}

PerkCandidate(a, b, indexes) ==
    [WeaponItem(1, "Fatebringer", KineticWeapons) EXCEPT
        !.iconWatermark = "/wm1",
        !.sockets =
            [present |-> TRUE,
             socketEntries |-> <<Socket("1", 20, <<>>, UndefNum, UndefNum),
                                 a, b, TrackerSocket>>,
             socketCategories |->
                <<[socketCategoryHash |-> IntrinsicTraits, socketIndexes |-> <<0>>],
                  [socketCategoryHash |-> WeaponPerks, socketIndexes |-> indexes]>>]]

InitPerks ==
    /\ metadata = EmptyTable
    /\ weapons = EmptyTable
    /\ weaponsConcise = EmptyTable
    /\ helperData = EmptyTable
    /\ manifest = 1
    /\ pc = [t \in Tasks |-> "idle"]
    /\ op = [t \in Tasks |-> "none"]
    /\ remoteVersion = [t \in Tasks |-> UndefStr]
    /\ paths = [t \in Tasks |-> UndefPaths]
    /\ tables = [t \in Tasks |-> "none"]
    /\ d2pc = [t \in Tasks |-> "none"]
    /\ d2failed = [t \in Tasks |-> {}]
    /\ d2aiData = [t \in Tasks |-> NoD2AI]
    /\ result = [t \in Tasks |-> NoResult]
    /\ wrote = [t \in Tasks |-> FALSE]
    /\ calls = 0
    /\ \E a \in PerkSockets, b \in PerkSockets, indexes \in PerkIndexes :
          tin = [candidate |-> PerkCandidate(a, b, indexes)]
    /\ tout = NoOutput
    /\ NoRollCalls

SpecPerks == InitPerks /\ [][NextTransform]_vars

\* ------------------------------------------------------------------------
\* transformWeapons on its own: one weapon under every combination of the
\* auxiliary lookups that can hit for it
\* ------------------------------------------------------------------------
NoLookup == [k \in {} |-> 0]

SeasonWatermarks == {"", "/wm1"}

\* the collectible of the weapon: none, one without source hash, one with
SeasonSources == {NullNum, UndefNum, 500}

SeasonD2AI(wmSeason, srcSeason, itemSeason, wmEvent, itemEvent) ==
    [watermarkToSeason |-> IF wmSeason THEN ("/wm1" :> 20) ELSE NoLookup,
     watermarkToEvent |-> IF wmEvent THEN ("/wm1" :> 3) ELSE NoLookup,
     sourceToSeason |-> IF srcSeason THEN (String(500) :> 18) ELSE NoLookup,
     seasons |-> IF itemSeason THEN (String(1) :> 9) ELSE NoLookup,
     events |-> IF itemEvent THEN (String(1) :> 2) ELSE NoLookup,
     craftableHashes |-> <<>>]

SeasonTables(candidate, source) ==
    [TablesWith(candidate) EXCEPT
        !.DestinyCollectibleDefinition =
            IF source = NullNum
            THEN (String(700) :> [itemHash |-> 4, sourceHash |-> 500])
            ELSE (String(700) :> [itemHash |-> 4, sourceHash |-> 500])
                 @@ (String(701) :> [itemHash |-> 1, sourceHash |-> source])]

InitSeason ==
    /\ metadata = EmptyTable
    /\ weapons = EmptyTable
    /\ weaponsConcise = EmptyTable
    /\ helperData = EmptyTable
    /\ manifest = 1
    /\ pc = [t \in Tasks |-> "idle"]
    /\ op = [t \in Tasks |-> "none"]
    /\ remoteVersion = [t \in Tasks |-> UndefStr]
    /\ paths = [t \in Tasks |-> UndefPaths]
    /\ tables = [t \in Tasks |-> "none"]
    /\ d2pc = [t \in Tasks |-> "none"]
    /\ d2failed = [t \in Tasks |-> {}]
    /\ d2aiData = [t \in Tasks |-> NoD2AI]
    /\ result = [t \in Tasks |-> NoResult]
    /\ wrote = [t \in Tasks |-> FALSE]
    /\ calls = 0
    /\ \E wm \in SeasonWatermarks, source \in SeasonSources,
          wmSeason \in BOOLEAN, srcSeason \in BOOLEAN, itemSeason \in BOOLEAN,
          wmEvent \in BOOLEAN, itemEvent \in BOOLEAN :
          tin = [candidate |-> Candidate({Weapon}, KineticWeapons, "Fatebringer",
                                         FALSE, wm, ""),
                 source |-> source,
                 d2ai |-> SeasonD2AI(wmSeason, srcSeason, itemSeason, wmEvent, itemEvent)]
    /\ tout = NoOutput
    /\ NoRollCalls

\* a call of transformWeapons(tables, d2aiData)
TransformSeason ==
    /\ ~tout.ran
    /\ LET w == transformWeapons(SeasonTables(tin.candidate, tin.source), tin.d2ai,
                                 HashesAt(1))
       IN  tout' = [ran |-> TRUE, full |-> w.full, concise |-> w.concise]
    /\ UNCHANGED <<dbVars, manifest, callVars, tin, rollVars>>

NextSeason == TransformSeason

SpecSeason == InitSeason /\ [][NextSeason]_vars

\* ------------------------------------------------------------------------
\* transformWeapons on its own: a weapon whose intrinsic-traits category
\* and fixed plugs vary
\* ------------------------------------------------------------------------
\* the socket categories before the weapon-perks one: no intrinsic-traits
\* category, or one with these socket indexes (entry 9 does not exist)
FrameCategories ==
    {<<>>}
    \cup {<<[socketCategoryHash |-> IntrinsicTraits, socketIndexes |-> indexes]>> :
             indexes \in {<<>>, <<0>>, <<1>>, <<9>>, <<9, 0>>, <<0, 1>>}}

\* singleInitialItemHash: 0, missing, a frame, a nameless plug, no definition
FramePlugs == {0, UndefNum, 20, 26, 99}

\* singleInitialItemHash: 0, missing, a trait, two origin traits, no definition
TraitPlugs == {0, UndefNum, 21, 23, 27, 99}

TraitIndexes == {<<1, 2>>, <<2, 1>>, <<1, 3>>, <<2, 9, 1>>}

SocketCandidate(frameCategories, framePlug, a, b, indexes) ==
    [WeaponItem(1, "Fatebringer", KineticWeapons) EXCEPT
        !.iconWatermark = "/wm1",
        !.sockets =
            [present |-> TRUE,
             socketEntries |-> <<Socket("1", framePlug, <<>>, UndefNum, UndefNum),
                                 Socket("2", a, <<>>, UndefNum, UndefNum),
                                 Socket("2", b, <<>>, UndefNum, UndefNum),
                                 Socket(Tracker, 23, <<>>, UndefNum, UndefNum)>>,
             socketCategories |->
                frameCategories
                \o <<[socketCategoryHash |-> WeaponPerks, socketIndexes |-> indexes]>>]]

InitSockets ==
    /\ metadata = EmptyTable
    /\ weapons = EmptyTable
    /\ weaponsConcise = EmptyTable
    /\ helperData = EmptyTable
    /\ manifest = 1
    /\ pc = [t \in Tasks |-> "idle"]
    /\ op = [t \in Tasks |-> "none"]
    /\ remoteVersion = [t \in Tasks |-> UndefStr]
    /\ paths = [t \in Tasks |-> UndefPaths]
    /\ tables = [t \in Tasks |-> "none"]
    /\ d2pc = [t \in Tasks |-> "none"]
    /\ d2failed = [t \in Tasks |-> {}]
    /\ d2aiData = [t \in Tasks |-> NoD2AI]
    /\ result = [t \in Tasks |-> NoResult]
    /\ wrote = [t \in Tasks |-> FALSE]
    /\ calls = 0
    /\ \E frameCategories \in FrameCategories, framePlug \in FramePlugs,
          a \in TraitPlugs, b \in TraitPlugs, indexes \in TraitIndexes :
          tin = [candidate |-> SocketCandidate(frameCategories, framePlug, a, b, indexes)]
    /\ tout = NoOutput
    /\ NoRollCalls

SpecSockets == InitSockets /\ [][NextTransform]_vars

\* ------------------------------------------------------------------------
\* services/db/wishlist-operations.ts: roll operations on one wishlist
\* (the createdAt and updatedAt timestamps are left out; usage stands for
\* the edited content usage, notes and perkHashes)
\* ------------------------------------------------------------------------
WishlistId == "w1"
RollWeapon == 1

Roll(id, usage) == [id |-> id, usage |-> usage]
WeaponWishlistEntry(weaponHash, rolls) == [weaponHash |-> weaponHash, rolls |-> rolls]

\* the wishlists the operations start from: no weapon entry, or two rolls
InitialWishlists ==
    {[id |-> WishlistId, weapons |-> EmptyTable],
     [id |-> WishlistId,
      weapons |-> (RollWeapon :> WeaponWishlistEntry(RollWeapon,
                                    <<Roll("a", "pve"), Roll("b", "pve")>>))]}

\* the arguments tried: rolls that exist and one that does not
RollIdArgs == {"a", "b", "zz"}
UsageArgs == {"pvp", "custom"}
RollIdsArgs == {<<"b", "a">>, <<"b">>, <<"zz", "b", "b">>}

\* generateId(): a value no earlier call has returned
generateId(n) == String(n + 1)

\* entry.rolls.findIndex((r) => r.id === rollId), one-based, 0 for -1
findIndex(rolls, rollId) ==
    IF \E i \in 1..Len(rolls) : rolls[i].id = rollId
    THEN CHOOSE i \in 1..Len(rolls) :
            /\ rolls[i].id = rollId
            /\ \A j \in 1..(i - 1) : rolls[j].id # rollId
    ELSE 0

Undone(wishlist) == [ok |-> FALSE, wishlist |-> wishlist]
Done(wishlist) == [ok |-> TRUE, wishlist |-> wishlist]
WithRolls(wishlist, weaponHash, rolls) ==
    [wishlist EXCEPT !.weapons =
        TablePut(wishlist.weapons, weaponHash, WeaponWishlistEntry(weaponHash, rolls))]

\* addRoll between its get and its put
addRoll(wishlist, weaponHash, newRoll) ==
    LET entry == IF TableHas(wishlist.weapons, weaponHash)
                 THEN TableGet(wishlist.weapons, weaponHash)
                 ELSE WeaponWishlistEntry(weaponHash, <<>>)
    IN  Done(WithRolls(wishlist, weaponHash, Append(entry.rolls, newRoll)))

\* updateRoll between its get and its put
updateRoll(wishlist, weaponHash, rollId, usage) ==
    IF ~TableHas(wishlist.weapons, weaponHash) THEN Undone(wishlist)
    ELSE LET rolls == TableGet(wishlist.weapons, weaponHash).rolls
             rollIndex == findIndex(rolls, rollId)
         IN  IF rollIndex = 0 THEN Undone(wishlist)
             ELSE Done(WithRolls(wishlist, weaponHash,
                                 [rolls EXCEPT ![rollIndex].usage = usage]))

\* deleteRoll between its get and its put
deleteRoll(wishlist, weaponHash, rollId) ==
    IF ~TableHas(wishlist.weapons, weaponHash) THEN Undone(wishlist)
    ELSE LET rolls == TableGet(wishlist.weapons, weaponHash).rolls
             rollIndex == findIndex(rolls, rollId)
             spliced == [i \in 1..(Len(rolls) - 1) |->
                            IF i < rollIndex THEN rolls[i] ELSE rolls[i + 1]]
         IN  IF rollIndex = 0 THEN Undone(wishlist)
             ELSE IF Len(spliced) = 0
                  THEN Done([wishlist EXCEPT
                                !.weapons = TableDelete(wishlist.weapons, weaponHash)])
                  ELSE Done(WithRolls(wishlist, weaponHash, spliced))

\* the loop of reorderRolls over rollIds: a listed roll is taken once
RECURSIVE takeListed(_, _)
takeListed(rollIds, rolls) ==
    IF rollIds = <<>> THEN <<>>
    ELSE LET rollIndex == findIndex(rolls, Head(rollIds))
         IN  IF rollIndex = 0
             THEN takeListed(Tail(rollIds), rolls)
             ELSE <<rolls[rollIndex]>> \o
                  takeListed(Tail(rollIds),
                             SelectSeq(rolls, LAMBDA r : r.id # Head(rollIds)))

\* reorderRolls between its get and its put
reorderRolls(wishlist, weaponHash, rollIds) ==
    IF ~TableHas(wishlist.weapons, weaponHash) THEN Undone(wishlist)
    ELSE LET rolls == TableGet(wishlist.weapons, weaponHash).rolls
             listed == {rollIds[i] : i \in 1..Len(rollIds)}
             reorderedRolls == takeListed(rollIds, rolls) \o
                               SelectSeq(rolls, LAMBDA r : r.id \notin listed)
         IN  Done(WithRolls(wishlist, weaponHash, reorderedRolls))

\* duplicateRoll between its get and its put
duplicateRoll(wishlist, weaponHash, rollId, newId) ==
    IF ~TableHas(wishlist.weapons, weaponHash) THEN Undone(wishlist)
    ELSE LET rolls == TableGet(wishlist.weapons, weaponHash).rolls
             originalIndex == findIndex(rolls, rollId)
             inserted == [i \in 1..(Len(rolls) + 1) |->
                             IF i <= originalIndex THEN rolls[i]
                             ELSE IF i = originalIndex + 1
                                  THEN [rolls[originalIndex] EXCEPT !.id = newId]
                                  ELSE rolls[i - 1]]
         IN  IF originalIndex = 0 THEN Undone(wishlist)
             ELSE Done(WithRolls(wishlist, weaponHash, inserted))

\* the synchronous stretch of a roll operation on the wishlist it has read
rollStep(c, wishlist, newId) ==
    CASE c.fn = "addRoll" -> addRoll(wishlist, c.weaponHash, Roll(c.newId, c.usage))
      [] c.fn = "updateRoll" -> updateRoll(wishlist, c.weaponHash, c.rollId, c.usage)
      [] c.fn = "deleteRoll" -> deleteRoll(wishlist, c.weaponHash, c.rollId)
      [] c.fn = "reorderRolls" -> reorderRolls(wishlist, c.weaponHash, c.rollIds)
      [] OTHER -> duplicateRoll(wishlist, c.weaponHash, c.rollId, newId)

\* a handler of the weapon page calls a roll operation; addRoll builds the
\* new roll, id included, before its first await
RollStart(u) ==
    /\ rollCalls[u].pc = "idle"
    /\ \E fn \in {"addRoll", "updateRoll", "deleteRoll", "reorderRolls", "duplicateRoll"},
          rollId \in RollIdArgs, usage \in UsageArgs, rollIds \in RollIdsArgs :
          /\ fn = "addRoll" => rollId = "a" /\ rollIds = <<"b">>
          /\ fn = "updateRoll" => rollIds = <<"b">>
          /\ fn \in {"deleteRoll", "duplicateRoll"} => usage = "pvp" /\ rollIds = <<"b">>
          /\ fn = "reorderRolls" => rollId = "a" /\ usage = "pvp"
          /\ rollCalls' = [rollCalls EXCEPT ![u] =
                [NoRollCall EXCEPT
                    !.pc = "get", !.fn = fn, !.weaponHash = RollWeapon,
                    !.rollId = IF fn \in {"addRoll", "reorderRolls"} THEN UndefStr ELSE rollId,
                    !.usage = IF fn \in {"addRoll", "updateRoll"} THEN usage ELSE UndefStr,
                    !.rollIds = IF fn = "reorderRolls" THEN rollIds ELSE <<>>,
                    !.newId = IF fn = "addRoll" THEN generateId(generated) ELSE UndefStr]]
          /\ generated' = IF fn = "addRoll" THEN generated + 1 ELSE generated
    /\ UNCHANGED <<dbVars, manifest, callVars, tin, tout, wishlists>>

\* await db.wishlists.get(wishlistId), which hands out a copy, and the
\* synchronous code up to the put
RollGet(u) ==
    /\ rollCalls[u].pc = "get"
    /\ LET c == rollCalls[u]
           needsId == c.fn = "duplicateRoll"
       IN  IF ~TableHas(wishlists, WishlistId)
           THEN /\ rollCalls' = [rollCalls EXCEPT ![u].pc = "done", ![u].returned = "nothing"]
                /\ UNCHANGED generated
           ELSE LET r == rollStep(c, TableGet(wishlists, WishlistId), generateId(generated))
                IN  IF r.ok
                    THEN /\ rollCalls' = [rollCalls EXCEPT
                                ![u].pc = "put", ![u].wishlist = r.wishlist,
                                ![u].newId = IF needsId THEN generateId(generated)
                                             ELSE c.newId]
                         /\ generated' = IF needsId THEN generated + 1 ELSE generated
                    ELSE /\ rollCalls' = [rollCalls EXCEPT
                                ![u].pc = "done", ![u].returned = "nothing"]
                         /\ UNCHANGED generated
    /\ UNCHANGED <<dbVars, manifest, callVars, tin, tout, wishlists>>

\* await db.wishlists.put(wishlist): the whole wishlist is written, or the
\* put throws and the handler reports the failure
RollPut(u) ==
    /\ rollCalls[u].pc = "put"
    /\ \E stored \in BOOLEAN :
          IF stored
          THEN /\ wishlists' = TablePut(wishlists, WishlistId, rollCalls[u].wishlist)
               /\ rollCalls' = [rollCalls EXCEPT ![u].pc = "done", ![u].returned = "value",
                                                 ![u].wishlist = NoWishlist]
          ELSE /\ UNCHANGED wishlists
               /\ rollCalls' = [rollCalls EXCEPT ![u].pc = "done", ![u].returned = "threw",
                                                 ![u].wishlist = NoWishlist]
    /\ UNCHANGED <<dbVars, manifest, callVars, tin, tout, generated>>

InitRolls ==
    /\ metadata = EmptyTable
    /\ weapons = EmptyTable
    /\ weaponsConcise = EmptyTable
    /\ helperData = EmptyTable
    /\ manifest = 1
    /\ pc = [t \in Tasks |-> "idle"]
    /\ op = [t \in Tasks |-> "none"]
    /\ remoteVersion = [t \in Tasks |-> UndefStr]
    /\ paths = [t \in Tasks |-> UndefPaths]
    /\ tables = [t \in Tasks |-> "none"]
    /\ d2pc = [t \in Tasks |-> "none"]
    /\ d2failed = [t \in Tasks |-> {}]
    /\ d2aiData = [t \in Tasks |-> NoD2AI]
    /\ result = [t \in Tasks |-> NoResult]
    /\ wrote = [t \in Tasks |-> FALSE]
    /\ calls = 0
    /\ tin = NoInput
    /\ tout = NoOutput
    /\ \E wishlist \in InitialWishlists : wishlists = (WishlistId :> wishlist)
    /\ rollCalls = [u \in RollTasks |-> NoRollCall]
    /\ generated = 0

NextRolls ==
    \/ \E u \in RollTasks : RollStart(u)
    \/ \E u \in RollTasks : RollGet(u)
    \/ \E u \in RollTasks : RollPut(u)

SpecRolls == InitRolls /\ [][NextRolls]_vars

\* ------------------------------------------------------------------------
\* Properties of the sync protocol
\* ------------------------------------------------------------------------
Token == IF TableHas(metadata, "version") THEN TableGet(metadata, "version") ELSE UndefStr

\* the record set keyed by hash
Keyed(records) == [h \in {records[i].hash : i \in 1..Len(records)} |->
                      records[CHOOSE i \in 1..Len(records) : records[i].hash = h]]

\* what one commit of loadManifest can leave in the three tables: the
\* token of a manifest (or the missing token) with the records made from
\* the tables of that manifest
OneCommit ==
    {[token |-> tk, weapons |-> Keyed(transformWeapons(TablesAt(v), d, HashesAt(v)).full),
      weaponsConcise |-> Keyed(transformWeapons(TablesAt(v), d, HashesAt(v)).concise)] :
        <<v, d, tk>> \in {x \in (1..NumVersions) \X {D2AIRemote, EmptyD2AI}
                                  \X ({VersionToken(u) : u \in 1..NumVersions} \cup {UndefStr}) :
                            x[3] \in {VersionToken(x[1]), UndefStr}}}

\* C1: whenever a version token is persisted, the full and the concise
\* collection are the ones committed together with that token, also while
\* another sync is in flight, after a failed sync and when syncs overlap.
C1_TokenOnlyWithItsRecords ==
    TableHas(metadata, "version") =>
        [token |-> Token, weapons |-> weapons, weaponsConcise |-> weaponsConcise] \in OneCommit

\* a token is persisted while a sync of another token is still in flight
C1_Witness ==
    /\ TableHas(metadata, "version")
    /\ TableCount(weapons) > 0
    /\ \E t \in Tasks : /\ pc[t] \in {"download", "persist"}
                        /\ remoteVersion[t] # Token
                        /\ \E u \in Tasks \ {t} : result[u].status = "ok" /\ ~result[u].cached

\* C2: when the persisted token equals the fetched one, loadManifest goes on
\* without starting the table or the d2ai downloads, and returns cached=true,
\* that token and the number of persisted concise records, writing nothing.
C2_CacheHitSkipsDownload ==
    [][\A t \in Tasks :
          /\ (pc[t] = "getVersion" /\ pc'[t] # "getVersion" /\ Token = remoteVersion[t])
                => (pc'[t] = "count" /\ tables'[t] = "none" /\ d2pc'[t] = "none")
          /\ (pc[t] = "count" /\ pc'[t] # "count")
                => /\ tables[t] = "none" /\ d2pc[t] = "none"
                   /\ result'[t] = Resolved(remoteVersion[t], TableCount(weaponsConcise), TRUE)
                   /\ UNCHANGED dbVars]_vars

\* a call returned cached=true over a cache filled by an earlier sync
C2_Witness ==
    \E t \in Tasks : /\ result[t].status = "ok"
                     /\ result[t].cached
                     /\ result[t].weaponCount > 0
                     /\ result[t].version = Token

\* C3: a loadManifest call that rejects (metadata, table fetch or missing
\* path, transaction) has changed neither the token nor a weapon collection.
C3_FailedLoadWritesNothing ==
    \A t \in Tasks :
        (op[t] = "loadManifest" /\ result[t].status = "error")
            => (~wrote[t] /\ result[t].error \in {"metadata", "tables", "transaction"})

\* a loadManifest failed over a filled cache, which is still there
C3_Witness ==
    \E t \in Tasks : /\ op[t] = "loadManifest"
                     /\ result[t].error \in {"tables", "transaction"}
                     /\ TableHas(metadata, "version")
                     /\ TableCount(weapons) > 0

\* C4: a forceManifestRefresh that rejects has changed neither the token
\* nor a weapon collection.
C4_FailedRefreshKeepsCache ==
    \A t \in Tasks :
        (op[t] = "forceManifestRefresh" /\ result[t].status = "error") => ~wrote[t]

\* C5: a forceManifestRefresh that resolves (on well-formed metadata) never
\* returns cached=true.
C5_RefreshNeverCached ==
    \A t \in Tasks :
        (op[t] = "forceManifestRefresh" /\ result[t].status = "ok"
            /\ result[t].version # UndefStr) => ~result[t].cached

\* C6: a call whose metadata answer lacked the version token or the
\* per-language path map never gets as far as returning the cached result
\* or writing the tables.
C6_MalformedMetadataIsFatal ==
    \A t \in Tasks :
        pc[t] \in {"count", "persist"} => (remoteVersion[t] # UndefStr /\ paths[t] # UndefPaths)

\* the field of D2AIData that a d2ai file fills
FileField(f) ==
    CASE f = "watermark-to-season.json" -> "watermarkToSeason"
      [] f = "watermark-to-event.json" -> "watermarkToEvent"
      [] f = "source-to-season-v2.json" -> "sourceToSeason"
      [] f = "seasons.json" -> "seasons"
      [] f = "events.json" -> "events"
      [] OTHER -> "craftableHashes"

\* C7: when exactly one d2ai file fails, loadD2AIData resolves to the
\* fetched contents of the other five and the empty default for that one.
C7_OneFileDegradesAlone ==
    \A t \in Tasks :
        (d2pc[t] = "done" /\ Cardinality(d2failed[t]) = 1)
            => \A f \in D2AIFiles :
                  d2aiData[t][FileField(f)] =
                      IF f \in d2failed[t] THEN EmptyD2AI[FileField(f)]
                      ELSE D2AIRemote[FileField(f)]

\* C8: failing d2ai fetches never reject the sync; when metadata and tables
\* loaded, the transaction (unless it aborts itself) commits the fetched
\* token and the records, returns cached=false, and a record has a null
\* season (event) wherever none of the lookups holds its key.
C8_AuxiliaryFailureDegrades ==
    [][\A t \in Tasks :
          /\ result'[t].error # "auxiliary"
          /\ (pc[t] = "persist" /\ d2failed[t] # {} /\ pc'[t] # "persist")
                => \/ result'[t].error = "transaction"
                   \/ /\ result'[t].status = "ok"
                      /\ ~result'[t].cached
                      /\ Token' = remoteVersion[t]
                      /\ TableCount(weapons') = result'[t].weaponCount
                      /\ \A h \in DOMAIN weapons' :
                            /\ weapons'[h].item.season = NullNum
                            /\ weapons'[h].item.event = NullNum
                            /\ weaponsConcise'[h].season = NullNum
                            /\ weaponsConcise'[h].event = NullNum]_vars

\* a sync committed records without season or event and nothing was cached
\* for the d2ai data
C8_Witness ==
    /\ ~TableHas(helperData, "d2ai")
    /\ TableCount(weapons) > 0
    /\ \A h \in DOMAIN weapons : weapons[h].item.season = NullNum /\ weapons[h].item.event = NullNum
    /\ \E t \in Tasks : result[t].status = "ok" /\ ~result[t].cached /\ result[t].version = Token

\* C9: the commit of a non-cached loadManifest leaves exactly the records of
\* this sync's transformation in both collections and the fetched token.
C9_CommitReplacesWholesale ==
    [][\A t \in Tasks :
          (pc[t] = "persist" /\ result'[t].status = "ok")
              => LET w == transformOf(paths[t], d2aiData[t])
                 IN  /\ Token' = remoteVersion[t]
                     /\ TableHas(metadata', "version")
                     /\ {weapons'[h] : h \in DOMAIN weapons'} = {w.full[i] : i \in 1..Len(w.full)}
                     /\ {weaponsConcise'[h] : h \in DOMAIN weaponsConcise'}
                           = {w.concise[i] : i \in 1..Len(w.concise)}
                     /\ \A h \in DOMAIN weapons' : weapons'[h].hash = h
                     /\ \A h \in DOMAIN weaponsConcise' : weaponsConcise'[h].hash = h]_vars

\* the second manifest was synced over the records of the first
C9_Witness ==
    /\ Token = VersionToken(2)
    /\ 12 \in DOMAIN weapons
    /\ \E t \in Tasks : /\ result[t] = Resolved(VersionToken(2), TableCount(weapons), FALSE)
                        /\ \E u \in Tasks \ {t} : result[u].version = VersionToken(1)
                                                  /\ result[u].status = "ok"

\* the two collections hold what a sync over the tables under paths p with
\* auxiliary data d persists
PersistedFrom(p, d) ==
    LET w == transformOf(p, d)
    IN  /\ {weapons[h] : h \in DOMAIN weapons} = {w.full[i] : i \in 1..Len(w.full)}
        /\ {weaponsConcise[h] : h \in DOMAIN weaponsConcise}
              = {w.concise[i] : i \in 1..Len(w.concise)}

C18_CacheEntryServesEveryLoad ==
    [][/\ \A t \in Tasks :
             (d2pc[t] = "get" /\ d2pc'[t] # "get" /\ TableHas(helperData, "d2ai"))
                 => /\ d2pc'[t] # "fetch"
                    /\ helperData' = helperData
                    /\ pc[t] = "download" => d2aiData'[t] = TableGet(helperData, "d2ai")
       /\ (TableHas(helperData, "d2ai") /\ ~TableHas(helperData', "d2ai"))
             => (calls' = calls + 1 /\ pc' = pc /\ d2pc' = d2pc)
       /\ \A t \in Tasks :
             (d2pc[t] = "put" /\ d2pc'[t] # "put"
                /\ (helperData' # helperData \/ d2aiData'[t] = D2AIRemote))
                 => /\ TableHas(helperData', "d2ai")
                    /\ TableGet(helperData', "d2ai") = d2aiData[t]
                    /\ DOMAIN TableGet(helperData', "d2ai")
                          = {"watermarkToSeason", "watermarkToEvent", "sourceToSeason",
                             "seasons", "events", "craftableHashes"}
                    /\ d2failed[t] = {}]_vars

\* the first sync has stored the six files; a later sync of the next
\* manifest holds the contents of the entry and is about to persist
C18_Witness ==
    /\ TableHas(helperData, "d2ai")
    /\ TableGet(helperData, "d2ai") = D2AIRemote
    /\ \E t \in Tasks :
          /\ pc[t] = "persist"
          /\ d2pc[t] = "done"
          /\ d2aiData[t] = TableGet(helperData, "d2ai")
          /\ remoteVersion[t] = VersionToken(2)
          /\ \E u \in Tasks \ {t} :
                result[u] = Resolved(VersionToken(1), TableCount(weapons), FALSE)

\* ------------------------------------------------------------------------
\* Properties of transformWeapons
\* ------------------------------------------------------------------------
HashesOf(records) == {records[i].hash : i \in 1..Len(records)}

Emitted(records) == {i \in 1..Len(records) : records[i].hash = tin.candidate.hash}

PerksOut == tout.full[CHOOSE i \in Emitted(tout.full) : TRUE].perks

\* the listed sockets of the weapon under test, in listed order
ListedSockets ==
    LET entries == tin.candidate.sockets.socketEntries
        indexes == tin.candidate.sockets.socketCategories[2].socketIndexes
        listed == SelectSeq(indexes, LAMBDA k : k < Len(entries))
    IN  [i \in 1..Len(listed) |-> entries[listed[i] + 1]]

\* C11: the concise record of every emitted weapon is the projection of
\* the full record at the same position: same hash (which is the hash of
\* the item part), the perk names column by column, and the frame name,
\* or the empty string where the full record has no frame.
C11_ConciseIsProjection ==
    tout.ran =>
        /\ Len(tout.concise) = Len(tout.full)
        /\ \A k \in 1..Len(tout.full) :
              LET f == tout.full[k]
                  c == tout.concise[k]
              IN  /\ c.hash = f.hash
                  /\ f.hash = f.item.hash
                  /\ Len(c.perks) = Len(f.perks)
                  /\ \A i \in 1..Len(f.perks) :
                        /\ Len(c.perks[i]) = Len(f.perks[i])
                        /\ \A j \in 1..Len(f.perks[i]) :
                              c.perks[i][j] = f.perks[i][j].name
                  /\ c.frame = (IF "null" \in DOMAIN f.frame THEN "" ELSE f.frame.name)

\* a weapon with two perk columns and a frame next to a weapon without frame
C11_Witness ==
    /\ tout.ran
    /\ Emitted(tout.full) # {}
    /\ Len(PerksOut) = 2
    /\ \E i \in 1..2 : Len(PerksOut[i]) >= 2
    /\ \E k \in 1..Len(tout.full) : tout.full[k].frame = NullObj
    /\ \E k \in 1..Len(tout.full) : tout.concise[k].frame = "Adaptive Frame"

\* C12: no perk column of an emitted weapon holds two perks with the same
\* plug hash.
C12_NoDuplicateHashInColumn ==
    tout.ran =>
        \A k \in 1..Len(tout.full) :
            \A c \in 1..Len(tout.full[k].perks) :
                LET column == tout.full[k].perks[c]
                IN  \A i, j \in 1..Len(column) :
                        column[i].hash = column[j].hash => i = j

\* the plug definition a perk was made from
PlugDefOf(perk) == TablesWith(tin.candidate).DestinyInventoryItemDefinition[String(perk.hash)]

\* the plug hashes a socket offers: its own list, its fixed plug and the
\* pools of the plug sets it references
OfferedBy(socket) ==
    LET sets == TablesAt(1).DestinyPlugSetDefinition
        pool(h) == IF h # UndefNum /\ String(h) \in DOMAIN sets
                   THEN {sets[String(h)].reusablePlugItems[i].plugItemHash :
                            i \in 1..Len(sets[String(h)].reusablePlugItems)}
                   ELSE {}
    IN  {socket.reusablePlugItems[i].plugItemHash : i \in 1..Len(socket.reusablePlugItems)}
        \cup {socket.singleInitialItemHash}
        \cup pool(socket.randomizedPlugSetHash) \cup pool(socket.reusablePlugSetHash)

\* C13: every perk of every emitted column was made from a plug definition
\* with a non-empty name, a plug category that is not one of the two
\* empty-socket categories, and a tier other than the enhanced marker 3.
C13_OnlyValidPlugs ==
    tout.ran =>
        \A k \in 1..Len(tout.full) :
            \A c \in 1..Len(tout.full[k].perks) :
                \A i \in 1..Len(tout.full[k].perks[c]) :
                    LET plugDef == PlugDefOf(tout.full[k].perks[c][i])
                    IN  /\ plugDef.displayProperties.name # ""
                        /\ plugDef.plug.plugCategoryHash \notin {"3618704867", "1915962497"}
                        /\ plugDef.inventory.tierType # 3

\* columns were emitted for sockets that offered an enhanced plug (24), an
\* empty-socket plug (25) and a nameless plug (26), from a plug set, from
\* the socket's own list, from the curated list
C13_Witness ==
    /\ tout.ran
    /\ Emitted(tout.full) # {}
    /\ Len(ListedSockets) = 2
    /\ Len(PerksOut) = 2
    /\ \E i \in 1..2 : /\ ListedSockets[i].randomizedPlugSetHash = 902
                         /\ 26 \in OfferedBy(ListedSockets[i])
                         /\ ListedSockets[i].reusablePlugItems # <<>>
    /\ \E i \in 1..2 : /\ ListedSockets[i].randomizedPlugSetHash = UndefNum
                         /\ ListedSockets[i].reusablePlugSetHash = UndefNum
                         /\ 24 \in OfferedBy(ListedSockets[i])

\* the plug hash resolves to a definition that may be shown as a perk
ShowablePlug(h) ==
    LET defs == TablesAt(1).DestinyInventoryItemDefinition
    IN  /\ String(h) \in DOMAIN defs
        /\ defs[String(h)].displayProperties.name # ""
        /\ defs[String(h)].plug.plugCategoryHash \notin {"3618704867", "1915962497"}
        /\ defs[String(h)].inventory.tierType # 3

\* C14: every perk column of every emitted full record, and every column
\* of names of every concise record, has at least one entry; when none of
\* the listed non-tracker sockets offers a showable plug, the weapon has
\* no column at all.
C14_NoEmptyColumn ==
    tout.ran =>
        /\ \A k \in 1..Len(tout.full) :
              /\ \A c \in 1..Len(tout.full[k].perks) : Len(tout.full[k].perks[c]) >= 1
              /\ \A c \in 1..Len(tout.concise[k].perks) : Len(tout.concise[k].perks[c]) >= 1
        /\ Emitted(tout.full) # {} =>
              ((\A i \in 1..Len(ListedSockets) :
                    \/ ListedSockets[i].socketTypeHash = "1282012138"
                    \/ \A h \in OfferedBy(ListedSockets[i]) : ~ShowablePlug(h))
               => PerksOut = <<>>)

\* two sockets were listed; the one whose pool is filtered out entirely
\* gave no column, the other one gave a column of three
C14_Witness ==
    /\ tout.ran
    /\ Emitted(tout.full) # {}
    /\ Len(ListedSockets) = 2
    /\ ListedSockets[1].randomizedPlugSetHash = 902
    /\ ListedSockets[1].reusablePlugItems = <<>>
    /\ ListedSockets[2].randomizedPlugSetHash = 903
    /\ Len(PerksOut) = 1
    /\ Len(PerksOut[1]) = 3

\* hash and flags of the perks of a column
Flags(column) ==
    [i \in 1..Len(column) |-> <<column[i].hash, column[i].isCurated,
                                column[i].curatedExclusive, column[i].isDeprecated>>]

\* the listed sockets that are not kill trackers
PerkSocketsListed == SelectSeq(ListedSockets, LAMBDA s : s.socketTypeHash # "1282012138")

\* the plug set hash a socket references: randomized before reusable
ReferencedSet(socket) ==
    IF socket.randomizedPlugSetHash # UndefNum
    THEN socket.randomizedPlugSetHash ELSE socket.reusablePlugSetHash

\* the column the claim describes for curated list `curated` (hashes) and
\* pool `pool` (entries): showable pool entries in pool order, then the
\* showable curated hashes that no pool entry names
PoolThenCurated(curated, pool) ==
    LET inCurated(h) == \E i \in 1..Len(curated) : curated[i] = h
        inPool(h) == \E i \in 1..Len(pool) : pool[i].plugItemHash = h
        shown == SelectSeq(pool, LAMBDA e : ShowablePlug(e.plugItemHash))
        extra == SortedKeys({i \in 1..Len(curated) :
                                /\ ShowablePlug(curated[i])
                                /\ ~inPool(curated[i])
                                /\ \A j \in 1..(i - 1) : curated[j] # curated[i]})
    IN  [i \in 1..Len(shown) |-> <<shown[i].plugItemHash, inCurated(shown[i].plugItemHash),
                                    FALSE, ~shown[i].currentlyCanRoll>>]
        \o [i \in 1..Len(extra) |-> <<curated[extra[i]], TRUE, TRUE, FALSE>>]

\* C15: when the one listed perk socket references a plug set P that is
\* in the table, its column is the showable entries of P in pool order
\* (curated iff the hash is in the socket's own list C, never
\* curated-exclusive, deprecated iff the entry cannot currently roll)
\* followed by the showable hashes of C that are not in P (curated,
\* curated-exclusive, not deprecated).
C15_PoolThenCuratedExclusive ==
    (/\ tout.ran
     /\ Emitted(tout.full) # {}
     /\ Len(PerkSocketsListed) = 1
     /\ ReferencedSet(PerkSocketsListed[1]) # UndefNum
     /\ String(ReferencedSet(PerkSocketsListed[1]))
            \in DOMAIN TablesAt(1).DestinyPlugSetDefinition)
    => LET socket == PerkSocketsListed[1]
           curated == [i \in 1..Len(socket.reusablePlugItems) |->
                          socket.reusablePlugItems[i].plugItemHash]
           pool == TablesAt(1).DestinyPlugSetDefinition[
                       String(ReferencedSet(socket))].reusablePlugItems
           expected == PoolThenCurated(curated, pool)
       IN  IF expected = <<>> THEN PerksOut = <<>>
           ELSE Len(PerksOut) = 1 /\ Flags(PerksOut[1]) = expected

\* pool [Outlaw, Rampage (cannot roll), two filtered plugs] with curated
\* list [Veist Stinger, Outlaw] gave [Outlaw curated, Rampage deprecated,
\* Veist Stinger curated-exclusive]
C15_Witness ==
    /\ tout.ran
    /\ Emitted(tout.full) # {}
    /\ Len(PerkSocketsListed) = 1
    /\ PerkSocketsListed[1].randomizedPlugSetHash = 900
    /\ Len(PerkSocketsListed[1].reusablePlugItems) = 2
    /\ Len(PerksOut) = 1
    /\ Flags(PerksOut[1]) = <<<<21, TRUE, FALSE, FALSE>>, <<22, FALSE, FALSE, TRUE>>,
                              <<23, TRUE, TRUE, FALSE>>>>

\* a listed perk socket lacks its reusablePlugItems list and is read:
\* it references no plug set, or one that is in the table
MalformedSocketRead ==
    \E i \in 1..Len(PerkSocketsListed) :
        /\ PerkSocketsListed[i].reusablePlugItems = UndefList
        /\ \/ ReferencedSet(PerkSocketsListed[i]) = UndefNum
           \/ String(ReferencedSet(PerkSocketsListed[i]))
                  \in DOMAIN TablesAt(1).DestinyPlugSetDefinition

\* C16: transformWeapons returns; a qualifying weapon whose record cannot
\* be built (a perk socket without its plug list, or weapon 2 without its
\* watermark field) is in neither output, and every other qualifying
\* weapon (the weapon under test when it is well formed, weapons 4 and
\* 11) is in both.
C16_ThrowingItemIsSkipped ==
    tout.ran =>
        /\ 2 \notin HashesOf(tout.full) /\ 2 \notin HashesOf(tout.concise)
        /\ MalformedSocketRead =>
              (1 \notin HashesOf(tout.full) /\ 1 \notin HashesOf(tout.concise))
        /\ ~MalformedSocketRead =>
              (1 \in HashesOf(tout.full) /\ 1 \in HashesOf(tout.concise))
        /\ {4, 11} \subseteq HashesOf(tout.full)
        /\ {4, 11} \subseteq HashesOf(tout.concise)

\* the weapon under test lists a socket without plug list after a well
\* formed one: it was dropped, the weapons after it were emitted
C16_Witness ==
    /\ tout.ran
    /\ Len(PerkSocketsListed) = 2
    /\ PerkSocketsListed[1].reusablePlugItems # UndefList
    /\ PerkSocketsListed[2].reusablePlugItems = UndefList
    /\ ReferencedSet(PerkSocketsListed[2]) = UndefNum
    /\ HashesOf(tout.full) = {4, 11}
    /\ HashesOf(tout.concise) = {4, 11}

\* the column the claim describes for a socket without plug set: its own
\* list when that is non-empty (showable plugs, each once; curated iff it
\* is the fixed plug), otherwise the fixed plug alone
ListOrFixed(socket) ==
    LET own == [i \in 1..Len(socket.reusablePlugItems) |->
                   socket.reusablePlugItems[i].plugItemHash]
        kept == SortedKeys({i \in 1..Len(own) :
                               /\ ShowablePlug(own[i])
                               /\ \A j \in 1..(i - 1) : own[j] # own[i]})
    IN  IF own # <<>>
        THEN [i \in 1..Len(kept) |->
                 <<own[kept[i]], own[kept[i]] = socket.singleInitialItemHash, FALSE, FALSE>>]
        ELSE IF ShowablePlug(socket.singleInitialItemHash)
             THEN <<<<socket.singleInitialItemHash, TRUE, TRUE, FALSE>>>>
             ELSE <<>>

\* the column by precedence: randomized plug set, reusable plug set, own
\* list, fixed plug
ByPrecedence(socket) ==
    LET sets == TablesAt(1).DestinyPlugSetDefinition
        curated == [i \in 1..Len(socket.reusablePlugItems) |->
                       socket.reusablePlugItems[i].plugItemHash]
        fromSet(h) == IF String(h) \in DOMAIN sets
                      THEN PoolThenCurated(curated, sets[String(h)].reusablePlugItems)
                      ELSE <<>>
    IN  IF socket.randomizedPlugSetHash # UndefNum
        THEN fromSet(socket.randomizedPlugSetHash)
        ELSE IF socket.reusablePlugSetHash # UndefNum
        THEN fromSet(socket.reusablePlugSetHash)
        ELSE ListOrFixed(socket)

RECURSIVE NonEmptyOf(_)
NonEmptyOf(columns) ==
    IF columns = <<>> THEN <<>>
    ELSE (IF Head(columns) = <<>> THEN <<>> ELSE <<Head(columns)>>)
         \o NonEmptyOf(Tail(columns))

\* C20: the columns of the weapon are the columns of its listed sockets
\* in the order the weapon-perks category lists their indexes; a listed
\* kill-tracker socket, here one with a fixed plug, a plug list and a plug
\* set, adds nothing.
C20_ColumnsInListedOrder ==
    (tout.ran /\ Emitted(tout.full) # {})
    => LET entries == tin.candidate.sockets.socketEntries
           indexes == tin.candidate.sockets.socketCategories[2].socketIndexes
           column(k) == IF k >= Len(entries) THEN <<>>
                        ELSE IF entries[k + 1].socketTypeHash = "1282012138" THEN <<>>
                        ELSE ByPrecedence(entries[k + 1])
       IN  [c \in 1..Len(PerksOut) |-> Flags(PerksOut[c])]
               = NonEmptyOf([i \in 1..Len(indexes) |-> column(indexes[i])])

\* the category lists the tracker, then entry 2, then entry 1: the column
\* of entry 2 comes first and the tracker's plug set gave nothing
C20_Witness ==
    /\ tout.ran
    /\ Emitted(tout.full) # {}
    /\ tin.candidate.sockets.socketCategories[2].socketIndexes = <<3, 2, 1>>
    /\ tin.candidate.sockets.socketEntries[4].socketTypeHash = "1282012138"
    /\ tin.candidate.sockets.socketEntries[4].randomizedPlugSetHash = 900
    /\ tin.candidate.sockets.socketEntries[2].singleInitialItemHash = 23
    /\ tin.candidate.sockets.socketEntries[2].reusablePlugItems = <<>>
    /\ tin.candidate.sockets.socketEntries[3].randomizedPlugSetHash = 903
    /\ Len(PerksOut) = 2
    /\ Len(PerksOut[1]) = 3
    /\ Len(PerksOut[2]) = 1

\* ------------------------------------------------------------------------
\* Properties of the item fields
\* ------------------------------------------------------------------------
\* the item under test passes the weapon filter
Qualifies ==
    LET c == tin.candidate
    IN  /\ c.itemCategoryHashes # UndefSet
        /\ "1" \in c.itemCategoryHashes
        /\ "3109687656" \notin c.itemCategoryHashes
        /\ c.inventory.bucketTypeHash \in {"1498876634", "2465295065", "953998645"}
        /\ c.displayProperties.name # ""
        /\ ~c.redacted

ItemOut == tout.full[CHOOSE i \in Emitted(tout.full) : TRUE].item

\* C21: a qualifying item is emitted whatever its watermarks are; the
\* lookup key is the primary watermark, the shelved one when the primary
\* is empty or missing, and null when both are empty or missing; season
\* and event are the watermark hit ("/wm1" is season 20, "/wm2" is event
\* 3) and otherwise what the lookups by item hash give (season 9, event 2).
C21_WatermarkFallback ==
    (tout.ran /\ Qualifies)
    => LET c == tin.candidate
           key == IF c.iconWatermark \notin {UndefStr, ""} THEN c.iconWatermark
                  ELSE IF c.iconWatermarkShelved \notin {UndefStr, ""}
                       THEN c.iconWatermarkShelved
                       ELSE NullStr
       IN  /\ Emitted(tout.full) # {}
           /\ Emitted(tout.concise) # {}
           /\ ItemOut.season = (IF key = "/wm1" THEN 20 ELSE 9)
           /\ ItemOut.event = (IF key = "/wm2" THEN 3 ELSE 2)

\* C22: the source of every emitted weapon is the source hash of the
\* collectible whose item hash is the weapon's hash, and null when there
\* is no such collectible or it carries no source hash.
C22_SourceFromCollectible ==
    tout.ran =>
        \A k \in 1..Len(tout.full) :
            LET defs == TablesAt(1).DestinyCollectibleDefinition
                mine == {c \in DOMAIN defs : defs[c].itemHash = tout.full[k].hash}
                expected == IF mine = {} THEN NullNum
                            ELSE LET c == CHOOSE c \in mine : TRUE
                                 IN  IF defs[c].sourceHash = UndefNum
                                     THEN NullNum ELSE defs[c].sourceHash
            IN  /\ tout.full[k].item.source = expected
                /\ tout.concise[k].source = expected

RecordOut == tout.full[CHOOSE i \in Emitted(tout.full) : TRUE]

\* the socket indexes a category of the weapon under test lists; <<>> when
\* the weapon has no such category
IndexesOf(categoryHash) ==
    LET cats == tin.candidate.sockets.socketCategories
        found == {i \in 1..Len(cats) : cats[i].socketCategoryHash = categoryHash}
    IN  IF found = {} THEN <<>>
        ELSE cats[CHOOSE i \in found : \A j \in found : i <= j].socketIndexes

\* hash, name, description and icon of the plug definition with hash h
Descriptor(h) ==
    LET def == TablesAt(1).DestinyInventoryItemDefinition[String(h)]
    IN  [hash |-> h,
         name |-> def.displayProperties.name,
         description |-> def.displayProperties.description,
         iconSrc |-> IF def.displayProperties.icon \in {UndefStr, ""} THEN NullStr
                     ELSE "https://www.bungie.net" \o def.displayProperties.icon]

\* C24: the frame is the descriptor of the plug named by the fixed plug
\* hash of the socket at the first index of the intrinsic-traits category,
\* and null when the category is missing, lists no index, that first index
\* has no socket, the fixed plug hash is 0 or missing, or the plug has no
\* definition; the weapon is emitted in every case.
C24_FrameFromFirstIndex ==
    tout.ran =>
        LET entries == tin.candidate.sockets.socketEntries
            indexes == IndexesOf("3956125808")
            plug == entries[indexes[1] + 1].singleInitialItemHash
            expected ==
                IF indexes = <<>> THEN NullObj
                ELSE IF indexes[1] >= Len(entries) THEN NullObj
                ELSE IF plug \in {0, UndefNum} THEN NullObj
                ELSE IF String(plug) \notin DOMAIN TablesAt(1).DestinyInventoryItemDefinition
                     THEN NullObj
                ELSE Descriptor(plug)
        IN  /\ Emitted(tout.full) # {}
            /\ RecordOut.frame = expected

AuxEntry(h) == IF TableHas(h, "d2ai") THEN TableGet(h, "d2ai") ELSE NoD2AI

\* the version token: metadata["version"], or absent
TokenOf(m) == IF TableHas(m, "version") THEN TableGet(m, "version") ELSE UndefStr

AuxUnchanged == AuxEntry(helperData') = AuxEntry(helperData)

ManifestCacheUnchanged ==
    /\ TokenOf(metadata') = TokenOf(metadata)
    /\ weapons' = weapons
    /\ weaponsConcise' = weaponsConcise

\* C26: the step of forceManifestRefresh that deletes the token, the step of
\* loadManifest that runs the transaction, and clearWeaponData leave the
\* auxiliary cache entry as it was; every step of loadD2AIData and
\* clearD2AIDataCache leave the token and both weapon collections as they
\* were; no step at all (clearWeaponData and clearD2AIDataCache included)
\* changes both caches.
C26_CachesInvalidatedIndependently ==
    [][ /\ \A t \in Tasks :
              /\ (pc[t] \in {"deleteVersion", "persist"} /\ pc'[t] # pc[t]) => AuxUnchanged
              /\ (d2pc[t] \in {"get", "fetch", "put"} /\ d2pc'[t] # d2pc[t])
                     => ManifestCacheUnchanged
        /\ AuxUnchanged \/ ManifestCacheUnchanged ]_vars

\* a sync stored the auxiliary data and committed records built from it,
\* and clearD2AIDataCache then removed the auxiliary entry only
C26_Witness ==
    /\ calls = 2
    /\ ~TableHas(helperData, "d2ai")
    /\ TokenOf(metadata) = VersionToken(1)
    /\ weapons = BulkPut(EmptyTable, transformOf([tn \in TableNames |-> 1], D2AIRemote).full)
    /\ weapons # BulkPut(EmptyTable, transformOf([tn \in TableNames |-> 1], EmptyD2AI).full)
    /\ weapons # EmptyTable

\* C27: in every reachable state of the database the full collection and
\* the concise collection are keyed by the same weapon hashes.
C27_SameHashesInBothCollections == DOMAIN weapons = DOMAIN weaponsConcise

\* a sync committed its records and a later sync failed in its transaction:
\* both collections still hold the records of the first
C27_Witness ==
    /\ \E t \in Tasks : result[t] = Rejected("transaction")
    /\ Cardinality(DOMAIN weapons) > 1
    /\ DOMAIN weapons = DOMAIN weaponsConcise

\* C28: the step in which a loadD2AIData call sees one of its six fetches
\* fail writes nothing to helperData; the d2ai entry never holds the empty
\* fallback; and a loadD2AIData call that finds no d2ai entry goes on to
\* the six fetches.
C28_FailedFetchCachesNothing ==
    [][ /\ \A t \in Tasks :
              /\ (d2pc[t] = "fetch" /\ d2pc'[t] \notin {"fetch", "put"})
                     => helperData' = helperData
              /\ (d2pc[t] = "get" /\ d2pc'[t] # "get" /\ ~TableHas(helperData, "d2ai"))
                     => d2pc'[t] = "fetch"
        /\ AuxEntry(helperData') # EmptyD2AI ]_vars

\* the fetches of one call failed, it holds the empty fallback, the cache
\* has no entry, and the other call, having found none, is at its fetches
C28_Witness ==
    \E t, u \in Tasks :
        /\ t # u
        /\ d2pc[t] = "done"
        /\ d2failed[t] = {"seasons.json"}
        /\ d2aiData[t] = EmptyD2AI
        /\ ~TableHas(helperData, "d2ai")
        /\ d2pc[u] = "fetch"

\* ------------------------------------------------------------------------
\* Roll operations that overlap
\* ------------------------------------------------------------------------
StoredRolls ==
    LET wishlist == TableGet(wishlists, WishlistId)
    IN  IF TableHas(wishlist.weapons, RollWeapon)
        THEN TableGet(wishlist.weapons, RollWeapon).rolls ELSE <<>>

\* the effect of the operation that reported success is in the stored
\* wishlist; o is the other operation
EffectPresent(c, o) ==
    LET rolls == StoredRolls
        others == IF o.returned = "value" THEN {o} ELSE {}
        at(id) == findIndex(rolls, id)
    IN  CASE c.fn \in {"addRoll", "duplicateRoll"} -> at(c.newId) # 0
          [] c.fn = "deleteRoll" -> at(c.rollId) = 0
          [] c.fn = "updateRoll" ->
                \/ at(c.rollId) = 0 /\ \E d \in others : d.fn = "deleteRoll" /\ d.rollId = c.rollId
                \/ \E d \in others : d.fn = "updateRoll" /\ d.rollId = c.rollId
                \/ at(c.rollId) # 0 /\ rolls[at(c.rollId)].usage = c.usage
          [] OTHER ->
                \/ \E d \in others : d.fn = "reorderRolls"
                \/ \A i, j \in 1..Len(c.rollIds) :
                      (/\ i < j
                       /\ c.rollIds[i] # c.rollIds[j]
                       /\ at(c.rollIds[i]) # 0
                       /\ at(c.rollIds[j]) # 0
                       /\ \A k \in 1..(j - 1) : c.rollIds[k] # c.rollIds[j])
                          => at(c.rollIds[i]) < at(c.rollIds[j])

\* C29: once both roll operations on the wishlist have completed, every
\* one that reported success has its effect in the stored wishlist: an
\* added or duplicated roll is there, a deleted roll is not, an updated
\* roll carries the update (unless the other operation deleted or updated
\* that roll), and reordered rolls stand in the requested order (unless the
\* other operation reordered too).
C29_NoLostUpdate ==
    (\A u \in RollTasks : rollCalls[u].pc = "done") =>
        \A u, v \in RollTasks :
            (u # v /\ rollCalls[u].returned = "value")
                => EffectPresent(rollCalls[u], rollCalls[v])

\* ------------------------------------------------------------------------
\* Perk flags
\* ------------------------------------------------------------------------
\* some listed perk socket references a plug set of the table that has an
\* entry for plug h whose currentlyCanRoll is false
InPoolThatCannotRoll(h) ==
    \E k \in 1..Len(PerkSocketsListed) :
        LET socket == PerkSocketsListed[k]
            sets == TablesAt(1).DestinyPlugSetDefinition
        IN  /\ ReferencedSet(socket) # UndefNum
            /\ String(ReferencedSet(socket)) \in DOMAIN sets
            /\ \E i \in 1..Len(sets[String(ReferencedSet(socket))].reusablePlugItems) :
                  LET e == sets[String(ReferencedSet(socket))].reusablePlugItems[i]
                  IN  e.plugItemHash = h /\ e.currentlyCanRoll = FALSE

\* C30: every perk of every emitted column that is curated-exclusive is
\* curated and not deprecated, and every perk that is deprecated has the
\* hash of a pool entry, of a plug set a listed perk socket references,
\* whose currentlyCanRoll is false.
C30_FlagsAgree ==
    (tout.ran /\ Emitted(tout.full) # {}) =>
        \A c \in 1..Len(PerksOut) : \A i \in 1..Len(PerksOut[c]) :
            LET perk == PerksOut[c][i]
            IN  /\ perk.curatedExclusive => (perk.isCurated /\ ~perk.isDeprecated)
                /\ perk.isDeprecated => InPoolThatCannotRoll(perk.hash)

\* one column holds a curated pool perk that cannot roll any more next to a
\* curated-exclusive perk
C30_Witness ==
    /\ tout.ran
    /\ Emitted(tout.full) # {}
    /\ \E c \in 1..Len(PerksOut) : \E i, j \in 1..Len(PerksOut[c]) :
          /\ PerksOut[c][i].isCurated
          /\ PerksOut[c][i].isDeprecated
          /\ ~PerksOut[c][i].curatedExclusive
          /\ PerksOut[c][j].curatedExclusive

====
